---- MODULE Spec2Model ----
(***************************************************************************)
(* A model of the epistery host: the AgentManager (discover, loadAll,      *)
(* loadAgent, cleanup) of AgentManager.mjs and the startup and shutdown    *)
(* sequences (main, gracefulShutdown) of index.mjs.                        *)
(*                                                                         *)
(* JavaScript runs one task to completion before the event loop delivers   *)
(* the next event.  The synchronous stretches of main are modelled as      *)
(* micro-steps; every event (a signal, a timer, a settled promise of the   *)
(* outside world, a request) is delivered only when main is parked at an   *)
(* await whose promise is settled by the outside world (AtYield).          *)
(*                                                                         *)
(* Strings are sequences of characters, so that String.replace and the    *)
(* template literals are computed rather than assumed.                     *)
(***************************************************************************)
EXTENDS Integers, Sequences, FiniteSets, TLC

\* ------------------------------------------------------------------ bounds
MaxAgents == 2
MaxNameLen == 2
MaxSignals == 2
MaxCount == 2
MaxLoadAllCalls == 2
MaxInflight == 2
TimeStep == 1000

\* ------------------------------------------------------- program constants
ForceExitMs == 5000
CloseTimeoutMs == 3000

\* -------------------------------------------------------------- strings
NameChars == {"@", "a"}

\* the value of a property that the manifest does not have
Undefined == <<"undefined">>

RECURSIVE StringsUpTo(_)
StringsUpTo(n) ==
    IF n = 0 THEN {<< >>}
    ELSE LET S == StringsUpTo(n - 1)
         IN  S \cup {Append(s, c) : s \in {t \in S : Len(t) = n - 1}, c \in NameChars}

WellKnownBase == <<"/", ".well-known", "/", "epistery", "/", "agent", "/">>
ShortBase == <<"/", "agent", "/">>

\* the mutant of missingName that takes only an absent name as missing
missingName_UndefinedOnly(manifest) == manifest.name = Undefined

\* !manifest.name : undefined and the empty string are falsy
missingName(manifest) == manifest.name = Undefined \/ manifest.name = << >>

\* the mutant of routeName: replace(/@/g, '') removes every '@'
RECURSIVE routeName_StripAll(_)
routeName_StripAll(name) ==
    IF name = << >> THEN << >>
    ELSE IF Head(name) = "@" THEN routeName_StripAll(Tail(name))
    ELSE <<Head(name)>> \o routeName_StripAll(Tail(name))

\* manifest.name.replace(/^@/, '')
routeName(name) ==
    IF Len(name) > 0 /\ Head(name) = "@" THEN Tail(name) ELSE name

wellKnownPath(name) == WellKnownBase \o routeName(name)
shortPath(name) == ShortBase \o routeName(name)

\* ------------------------------------------------------------- variables
VARIABLES
    rootExists,     \* existsSync(agentsPath)
    listing,        \* readdirSync(agentsPath): the directory entries, in listing order
    loadAllCalls,   \* how often loadAll was called
    pc,             \* the position of main
    agentManager,   \* TRUE once the module variable agentManager is assigned
    discovered,     \* the result of discover() that loadAll iterates
    loadState,      \* per discovery record: pending, importing, registered, skipped, failed
    outcomes,       \* per discovery record: what its module did when it was loaded
    loadAllResult,  \* none, resolved, rejected
    stack,          \* the layers app.use added for agents: <<[path, router]>>
    attached,       \* the routers on which an agent's attach registered its routes
    agents,         \* AgentManager.agents, a Map in insertion order
    counter,        \* per agent instance: the state its request handler changes
    via,            \* per agent instance: the mount paths its requests came through
    wsResult,       \* none, done: has the initWebSocket loop of main run
    wsCalls,        \* the instances whose initWebSocket was invoked
    wsErrors,       \* the instances for which the loop logged a failure
    config,         \* per domain: the data of its Config, as saved
    inflight,       \* the GET /claim requests that await resolveTxt
    request,        \* the request handled last
    response,       \* the answer to it
    AGENT_CONTRACT_ADDRESS, \* process.env.AGENT_CONTRACT_ADDRESS
    transactions,   \* the contract requests that await the chain
    https_server,   \* none, listening, closing, closed
    http_server,
    isShuttingDown,
    shutdownPc,     \* idle, entered, closeHttps, closeHttp, cleanup, exited
    forceExitTimer, \* the time the force-exit timer is due, -1 when not pending
    closeTimer,     \* the time the pending closeServer timeout is due, -1 when none
    elapsed,        \* milliseconds since gracefulShutdown started
    cleanupCursor,  \* the index in agents of the entry whose cleanup() is awaited
    cleanupCalls,   \* per agent instance: how often its cleanup() was invoked
    cleanupResult,  \* of AgentManager.cleanup(): none, pending, resolved, rejected
    cleanupOpen,    \* the instances whose cleanup() promise has not settled
    cleanupFailed,  \* the instances whose cleanup() threw or rejected
    shutdownFrom,   \* the lifecycle state in which the first signal arrived
    shutdownRuns,   \* how often the body of gracefulShutdown ran past its guard
    closeCalls,     \* per server: how often server.close() was called
    sigCount,       \* the signals delivered so far
    exitCode        \* -1 while the process runs, else the code given to process.exit

envVars == <<rootExists, listing>>
mainVars == <<loadAllCalls, pc, agentManager, discovered, loadState, outcomes, loadAllResult, stack,
             attached, agents>>
reqVars == <<counter, via>>
wsVars == <<wsResult, wsCalls, wsErrors>>
chainVars == <<AGENT_CONTRACT_ADDRESS, transactions>>
hostVars == <<config, inflight, request, response, chainVars>>
sdVars == <<isShuttingDown, shutdownPc, forceExitTimer, closeTimer, elapsed, cleanupCursor,
            cleanupCalls, cleanupResult, cleanupOpen, cleanupFailed, shutdownFrom,
            shutdownRuns, closeCalls, sigCount, exitCode>>
srvVars == <<https_server, http_server>>
vars == <<envVars, mainVars, reqVars, wsVars, hostVars, sdVars, srvVars>>

\* ------------------------------------------------------------- discovery
\* the manifests a parsable epistery.json can hold
Manifests(names) == {[parsable |-> TRUE, isNull |-> FALSE, name |-> n] : n \in names}

\* an epistery.json that does not parse, and one that holds the JSON literal null
Corrupt == [parsable |-> FALSE, isNull |-> FALSE, name |-> Undefined]
NullManifest == [parsable |-> TRUE, isNull |-> TRUE, name |-> Undefined]

DirEntry(m) == [kind |-> "dir", hasManifest |-> TRUE, hasEntry |-> TRUE, manifest |-> m]
FileEntry == [kind |-> "file", hasManifest |-> FALSE, hasEntry |-> FALSE,
              manifest |-> Corrupt]

\* the listings of at most MaxAgents entries; the entry at position i has the local name i
Listings(shapes) ==
    UNION {{[i \in 1..n |-> [name |-> i] @@ f[i]] : f \in [1..n -> shapes]} : n \in 0..MaxAgents}

\* the kinds of a directory entry: isDirectory(), isSymbolicLink(), neither
Kinds == {"dir", "symlink", "file"}

\* every shape of a directory entry: its kind, whether existsSync finds epistery.json and
\* index.mjs under it, and whether epistery.json parses (then with the name "@a")
AnyEntry ==
    {[kind |-> k, hasManifest |-> m, hasEntry |-> e,
      manifest |-> IF m /\ p THEN [parsable |-> TRUE, isNull |-> FALSE, name |-> <<"@", "a">>]
                   ELSE Corrupt] :
        k \in Kinds, m \in BOOLEAN, e \in BOOLEAN, p \in BOOLEAN}

\* a call returns a value or throws
Return(v) == [threw |-> FALSE, value |-> v]
Throw == [threw |-> TRUE, value |-> << >>]

\* readdirSync(this.agentsPath, ...) throws ENOENT when the path does not exist
readdirSync(exists, entries) == IF exists THEN Return(entries) ELSE Throw

\* the entry passes the kind check and both existsSync checks: its manifest is parsed
parsed(entry) ==
    /\ entry.kind \in {"dir", "symlink"}
    /\ entry.hasManifest
    /\ entry.hasEntry

\* the mutant of accepted without the check for index.mjs
accepted_NoEntryCheck(entry) ==
    /\ entry.kind \in {"dir", "symlink"}
    /\ entry.hasManifest
    /\ entry.manifest.parsable

\* the mutant of accepted without the check of the entry's kind
accepted_AnyKind(entry) ==
    /\ entry.hasManifest
    /\ entry.hasEntry
    /\ entry.manifest.parsable

\* one pass of the loop body of discover: does the entry yield a record
accepted(entry) ==
    /\ entry.kind \in {"dir", "symlink"}
    /\ entry.hasManifest
    /\ entry.hasEntry
    /\ entry.manifest.parsable

\* the catch block of the loop body of discover runs and logs the failure: JSON.parse
\* threw, or reading manifest.name for the log line threw because the manifest is null
reportsFailure(entry) ==
    parsed(entry) /\ (~entry.manifest.parsable \/ entry.manifest.isNull)

\* discovered.push({name, path, manifest, entryPath}) for the entries kept, in their order
pushed(kept) ==
    [k \in 1..Len(kept) |-> [name |-> kept[k].name, manifest |-> kept[k].manifest]]

\* the mutant of discover without the existsSync check of the root
discover_NoExistsCheck(exists, entries) ==
    LET dir == readdirSync(exists, entries)
    IN  IF dir.threw THEN Throw ELSE Return(pushed(SelectSeq(dir.value, accepted)))

\* the mutant of discover without the try/catch around JSON.parse
discover_AbortOnParseError(exists, entries) ==
    IF ~exists THEN Return(<< >>)
    ELSE LET dir == readdirSync(exists, entries)
         IN  IF dir.threw THEN Throw
             ELSE IF \E k \in 1..Len(dir.value) :
                        parsed(dir.value[k]) /\ ~dir.value[k].manifest.parsable
             THEN Throw
             ELSE Return(pushed(SelectSeq(dir.value, accepted)))

\* the mutant of discover that puts each record in front (unshift instead of push)
discover_Unshift(exists, entries) ==
    IF ~exists THEN Return(<< >>)
    ELSE LET dir == readdirSync(exists, entries)
             kept == pushed(SelectSeq(dir.value, accepted))
         IN  IF dir.threw THEN Throw
             ELSE Return([k \in 1..Len(kept) |-> kept[Len(kept) + 1 - k]])

discover(exists, entries) ==
    IF ~exists THEN Return(<< >>)
    ELSE LET dir == readdirSync(exists, entries)
         IN  IF dir.threw THEN Throw ELSE Return(pushed(SelectSeq(dir.value, accepted)))

\* ----------------------------------------------------------------- main
\* the mutant of MainOrder that starts the HTTPS server before the agents are loaded
MainOrder_ListenFirst ==
    <<"init", "listenHttps", "discover", "loading", "listenHttp", "done">>

\* the mutant of MainOrder that never loads the agents
MainOrder_SkipLoad == <<"init", "listenHttps", "listenHttp", "done">>

\* the order of main from the awaits of its setup on: loadAll (discover, then the loop
\* over the records), https_server.listen, http_server.listen
MainOrder == <<"init", "discover", "loading", "listenHttps", "listenHttp", "done">>

NextStage(s) ==
    LET k == CHOOSE j \in 1..Len(MainOrder) : MainOrder[j] = s
    IN  IF k < Len(MainOrder) THEN MainOrder[k + 1] ELSE "done"

Terminal == {"registered", "skipped", "failed"}

exited == exitCode # -1

\* the states of the lifecycle, read off the position of main, the guard flag of
\* gracefulShutdown and process.exit
Lifecycle == <<"Idle", "Discovering", "Loading", "Active", "ShuttingDown", "Stopped">>

lifecycle ==
    IF exited THEN "Stopped"
    ELSE IF isShuttingDown THEN "ShuttingDown"
    ELSE IF pc = "init" THEN "Idle"
    ELSE IF pc = "discover" THEN "Discovering"
    ELSE IF pc = "loading" THEN "Loading"
    ELSE "Active"

\* main is parked at an await that only the outside world settles
MainParked ==
    \/ pc \in {"init", "done", "crashed"}
    \/ pc = "loading" /\ \E i \in DOMAIN loadState : loadState[i] = "importing"

\* no JavaScript is running: the event loop can deliver the next event
AtYield == MainParked /\ shutdownPc # "entered"

\* the mutant of canStart: the loop starts every load without awaiting the previous one
canStart_NoAwait(i) == TRUE

\* `await this.loadAgent(agentInfo, app)` in the for loop of loadAll: record i is taken up
\* only after the load of every earlier record has returned or thrown
canStart(i) == \A j \in 1..(i - 1) : loadState[j] \in Terminal

\* the mutant of loadAllCatch: no try/catch, the failure of one agent rejects loadAll
loadAllCatch_Rethrow(i) ==
    [loadState |-> [loadState EXCEPT ![i] = "failed"], loadAllResult |-> "rejected",
     pc |-> "crashed"]

\* the catch block of loadAll: the failure is logged and the loop goes on
loadAllCatch(i) ==
    [loadState |-> [loadState EXCEPT ![i] = "failed"], loadAllResult |-> loadAllResult,
     pc |-> pc]

\* the mutant of mount: the router is mounted at the canonical path only
mount_CanonicalOnly(stk, wk, sh, r) == stk \o <<[path |-> wk, router |-> r]>>

\* the mutant of mount: the short path gets a router of its own (-r, a fresh empty router)
mount_TwoRouters(stk, wk, sh, r) ==
    stk \o <<[path |-> wk, router |-> r], [path |-> sh, router |-> 0 - r]>>

\* app.use(wellKnownPath, agentRouter); app.use(shortPath, agentRouter)
mount(stk, wk, sh, r) ==
    stk \o <<[path |-> wk, router |-> r], [path |-> sh, router |-> r]>>

\* Map.prototype.set: an existing key keeps its position, a new key is appended
mapSet(m, entry) ==
    IF \E k \in 1..Len(m) : m[k].name = entry.name
    THEN [k \in 1..Len(m) |-> IF m[k].name = entry.name THEN entry ELSE m[k]]
    ELSE Append(m, entry)

\* the mutant of isFunction: the hook is called without the typeof check
isFunction_Always(hook) == TRUE

\* typeof instance.cleanup === 'function', typeof instance.initWebSocket === 'function'
isFunction(hook) == hook # "none"

\* what the import, the constructor and attach of an agent module can do
LoadFailures == {"importThrows", "noDefault", "ctorThrows", "attachThrows"}
Instances ==
    [attach : {"none", "ok"}, cleanup : {"none", "throws", "async"},
     initWebSocket : {"none", "throws", "ok"}]
ImportOutcomes ==
    {[fail |-> f, attach |-> "none", cleanup |-> "none", initWebSocket |-> "none"] :
        f \in LoadFailures}
    \cup {[fail |-> "no"] @@ inst : inst \in Instances}

\* lines 613-616 of main: the awaits before the agents are loaded have resolved
Startup ==
    /\ pc = "init"
    /\ AtYield
    /\ ~exited
    /\ pc' = NextStage("init")
    /\ UNCHANGED <<envVars, loadAllCalls, agentManager, discovered, loadState, outcomes, loadAllResult,
                   stack, attached, agents, reqVars, wsVars, hostVars, sdVars, srvVars>>

\* loadAll up to its for loop: `const discovered = this.discover()`; an exception of
\* discover rejects loadAll, and main has no handler for that
loadAllBegin(stage) ==
    LET d == discover(rootExists, listing)
    IN  /\ loadAllCalls' = loadAllCalls + 1
        /\ discovered' = d.value
        /\ loadState' = [i \in 1..Len(d.value) |-> "pending"]
        /\ outcomes' = [i \in 1..Len(d.value) |-> "none"]
        /\ loadAllResult' = IF d.threw THEN "rejected" ELSE "none"
        /\ pc' = IF d.threw THEN "crashed" ELSE stage

\* agentManager = new AgentManager(agentsPath); loadAll calls discover()
Discover ==
    /\ pc = "discover"
    /\ ~exited
    /\ agentManager' = TRUE
    /\ loadAllBegin(NextStage("discover"))
    /\ UNCHANGED <<envVars, stack, attached, agents, reqVars, wsVars, hostVars, sdVars, srvVars>>

\* loadAll is called once more on the same AgentManager and app, after the first call
\* has resolved
LoadAllAgain ==
    /\ pc = NextStage("loading")
    /\ ~exited
    /\ loadAllResult = "resolved"
    /\ loadAllCalls < MaxLoadAllCalls
    /\ loadAllBegin("loading")
    /\ UNCHANGED <<envVars, agentManager, stack, attached, agents, reqVars, wsVars, hostVars, sdVars,
                   srvVars>>

\* loadAgent up to its first await: the name check, then the import is started; reading
\* manifest.name of a null manifest throws, which the catch block of loadAll takes
LoadAgentBegin(i) ==
    /\ pc = "loading"
    /\ ~exited
    /\ loadState[i] = "pending"
    /\ \A j \in 1..(i - 1) : loadState[j] # "pending"
    /\ canStart(i)
    /\ IF discovered[i].manifest.isNull
       THEN LET c == loadAllCatch(i)
            IN  /\ loadState' = c.loadState
                /\ loadAllResult' = c.loadAllResult
                /\ pc' = c.pc
       ELSE /\ loadState' = [loadState EXCEPT
                                ![i] = IF missingName(discovered[i].manifest) THEN "skipped"
                                       ELSE "importing"]
            /\ UNCHANGED <<pc, loadAllResult>>
    /\ UNCHANGED <<envVars, loadAllCalls, agentManager, discovered, outcomes, stack, attached,
                   agents, reqVars, wsVars, hostVars, sdVars, srvVars>>

\* new AgentClass(...) and express.Router() make a new object at every load; the object
\* made for record i by the current call of loadAll
newObject(i) == i + MaxAgents * (loadAllCalls - 1)

\* loadAgent from the settled import to its end: instantiate, attach, mount, register
ImportSettle(i, o) ==
    /\ pc = "loading"
    /\ AtYield
    /\ ~exited
    /\ loadState[i] = "importing"
    /\ outcomes' = [outcomes EXCEPT ![i] = o.fail]
    /\ IF o.fail # "no"
       THEN LET c == loadAllCatch(i)
            IN  /\ loadState' = c.loadState
                /\ loadAllResult' = c.loadAllResult
                /\ pc' = c.pc
                /\ UNCHANGED <<stack, attached, agents>>
       ELSE LET rec == discovered[i]
                wk == wellKnownPath(rec.manifest.name)
                sh == shortPath(rec.manifest.name)
            IN  /\ attached' = IF o.attach = "ok" THEN attached \cup {newObject(i)}
                                ELSE attached
                /\ stack' = mount(stack, wk, sh, newObject(i))
                /\ agents' = mapSet(agents,
                                    [name |-> rec.name, manifest |-> rec.manifest,
                                     instance |-> [id |-> newObject(i), attach |-> o.attach,
                                                   cleanup |-> o.cleanup,
                                                   initWebSocket |-> o.initWebSocket],
                                     wellKnownPath |-> wk, shortPath |-> sh])
                /\ loadState' = [loadState EXCEPT ![i] = "registered"]
                /\ UNCHANGED <<pc, loadAllResult>>
    /\ UNCHANGED <<envVars, loadAllCalls, agentManager, discovered, reqVars, wsVars, hostVars, sdVars, srvVars>>

\* the for loop of loadAll has run out of records
LoadAllDone ==
    /\ pc = "loading"
    /\ ~exited
    /\ \A i \in DOMAIN loadState : loadState[i] \in Terminal
    /\ loadAllResult' = "resolved"
    /\ pc' = NextStage("loading")
    /\ UNCHANGED <<envVars, loadAllCalls, agentManager, discovered, loadState, outcomes, stack, attached,
                   agents, reqVars, wsVars, hostVars, sdVars, srvVars>>

\* https_server = https.createServer(...); https_server.listen(https_port)
ListenHttps ==
    /\ pc = "listenHttps"
    /\ ~exited
    /\ https_server' = "listening"
    /\ pc' = NextStage("listenHttps")
    /\ UNCHANGED <<envVars, loadAllCalls, agentManager, discovered, loadState, outcomes, loadAllResult,
                   stack, attached, agents, reqVars, wsVars, hostVars, sdVars, http_server>>

\* http_server = http.createServer(app); http_server.listen(http_port)
ListenHttp ==
    /\ pc = "listenHttp"
    /\ ~exited
    /\ http_server' = "listening"
    /\ pc' = NextStage("listenHttp")
    /\ UNCHANGED <<envVars, loadAllCalls, agentManager, discovered, loadState, outcomes, loadAllResult,
                   stack, attached, agents, reqVars, wsVars, hostVars, sdVars, https_server>>

\* the agents, in the order of the Map, whose initWebSocket the loop of main calls
wsCallable(reg) ==
    SelectSeq(reg, LAMBDA e : isFunction(e.instance.initWebSocket))

\* the mutant of initWebSocketLoop without try/catch: the first throw ends the loop and
\* rejects main
initWebSocketLoop_AbortOnThrow(reg) ==
    LET callable == wsCallable(reg)
        throwers == {k \in 1..Len(callable) :
                        callable[k].instance.initWebSocket \in {"none", "throws"}}
        last == IF throwers = {} THEN Len(callable)
                ELSE CHOOSE k \in throwers : \A j \in throwers : k <= j
    IN  [called |-> {callable[k].instance.id : k \in 1..last},
         failed |-> {},
         threw |-> throwers # {}]

\* the loop of main over agentManager.agents: initWebSocket(http_server) is called on
\* every instance that has it, a throw is caught and logged and the loop goes on
initWebSocketLoop(reg) ==
    LET callable == wsCallable(reg)
    IN  [called |-> {callable[k].instance.id : k \in 1..Len(callable)},
         failed |-> {callable[k].instance.id : k \in
                        {j \in 1..Len(callable) :
                            callable[j].instance.initWebSocket \in {"none", "throws"}}},
         threw |-> FALSE]

\* the loop of main between http.createServer and http_server.listen
InitWebSockets ==
    /\ pc = "listenHttp"
    /\ ~exited
    /\ agentManager
    /\ wsResult = "none"
    /\ LET w == initWebSocketLoop(agents)
       IN  /\ wsCalls' = w.called
           /\ wsErrors' = w.failed
           /\ pc' = IF w.threw THEN "crashed" ELSE pc
    /\ wsResult' = "done"
    /\ UNCHANGED <<envVars, loadAllCalls, agentManager, discovered, loadState, outcomes,
                   loadAllResult, stack, attached, agents, reqVars, hostVars, sdVars, srvVars>>

\* -------------------------------------------------------------- requests
\* the agent instance that answers GET <path>/ping, 0 when no layer answers: express
\* tries the layers in mount order and a router without a matching route passes on
Dispatch(path) ==
    LET hits == {k \in 1..Len(stack) : stack[k].path = path /\ stack[k].router \in attached}
    IN  IF hits = {} THEN 0
        ELSE stack[CHOOSE k \in hits : \A j \in hits : k <= j].router

MountedPaths == {stack[k].path : k \in 1..Len(stack)}

\* a request that an agent's route answers: the handler changes the instance's state
Request(path) ==
    /\ AtYield
    /\ ~exited
    /\ "listening" \in {https_server, http_server}
    /\ path \in MountedPaths
    /\ Dispatch(path) # 0
    /\ counter[Dispatch(path)] < MaxCount
    /\ counter' = [counter EXCEPT ![Dispatch(path)] = @ + 1]
    /\ via' = [via EXCEPT ![Dispatch(path)] = @ \cup {path}]
    /\ UNCHANGED <<envVars, mainVars, wsVars, hostVars, sdVars, srvVars>>

\* ------------------------------------------------------------- shutdown
Servers == {"https", "http"}

\* the values a synchronous stretch of gracefulShutdown reads and writes
Current ==
    [shutdownPc |-> shutdownPc, https_server |-> https_server, http_server |-> http_server,
     closeTimer |-> closeTimer, closeCalls |-> closeCalls, cleanupCursor |-> cleanupCursor,
     cleanupCalls |-> cleanupCalls, cleanupResult |-> cleanupResult,
     cleanupOpen |-> cleanupOpen, cleanupFailed |-> cleanupFailed,
     forceExitTimer |-> forceExitTimer, exitCode |-> exitCode]

Becomes(S) ==
    /\ shutdownPc' = S.shutdownPc
    /\ https_server' = S.https_server
    /\ http_server' = S.http_server
    /\ closeTimer' = S.closeTimer
    /\ closeCalls' = S.closeCalls
    /\ cleanupCursor' = S.cleanupCursor
    /\ cleanupCalls' = S.cleanupCalls
    /\ cleanupResult' = S.cleanupResult
    /\ cleanupOpen' = S.cleanupOpen
    /\ cleanupFailed' = S.cleanupFailed
    /\ forceExitTimer' = S.forceExitTimer
    /\ exitCode' = S.exitCode

\* the mutant of cleanupCatch: no try/catch, the failure of one agent rejects cleanup()
cleanupCatch_Rethrow(k, S) ==
    [S EXCEPT !.cleanupCursor = 0, !.cleanupResult = "rejected"]

\* the mutant of cleanupLoop: every cleanup() is called at once, none is awaited before
\* the next is called
RECURSIVE cleanupLoop_NoAwait(_, _)
cleanupLoop_NoAwait(k, S) ==
    IF k > Len(agents)
    THEN IF S.cleanupOpen = {} THEN [S EXCEPT !.cleanupCursor = 0, !.cleanupResult = "resolved"]
         ELSE [S EXCEPT !.cleanupResult = "pending"]
    ELSE LET inst == agents[k].instance
             called == [S EXCEPT !.cleanupCalls[inst.id] = @ + 1]
         IN  IF ~isFunction(inst.cleanup) THEN cleanupLoop_NoAwait(k + 1, S)
             ELSE IF inst.cleanup \in {"none", "throws"}
             THEN cleanupLoop_NoAwait(k + 1, [called EXCEPT !.cleanupFailed = @ \cup {inst.id}])
             ELSE cleanupLoop_NoAwait(k + 1, [called EXCEPT !.cleanupCursor = k,
                                                              !.cleanupOpen = @ \cup {inst.id}])

RECURSIVE cleanupLoop(_, _), cleanupCatch(_, _)

\* the catch block of AgentManager.cleanup: the error is logged and the loop goes on
cleanupCatch(k, S) == cleanupLoop(k + 1, S)

\* AgentManager.cleanup from the Map entry at position k up to its next await or its end;
\* a Map iterator is live, so entries set while cleanup() is suspended are visited too;
\* calling what is no function throws a TypeError inside the try block
cleanupLoop(k, S) ==
    IF k > Len(agents)
    THEN [S EXCEPT !.cleanupCursor = 0, !.cleanupResult = "resolved"]
    ELSE LET inst == agents[k].instance
             called == [S EXCEPT !.cleanupCalls[inst.id] = @ + 1]
         IN  IF ~isFunction(inst.cleanup) THEN cleanupLoop(k + 1, S)
             ELSE IF inst.cleanup \in {"none", "throws"}
             THEN cleanupCatch(k, [called EXCEPT !.cleanupFailed = @ \cup {inst.id}])
             ELSE [called EXCEPT !.cleanupCursor = k, !.cleanupResult = "pending",
                                 !.cleanupOpen = @ \cup {inst.id}]

\* gracefulShutdown after `await agentManager.cleanup()`: clearTimeout and process.exit(0),
\* or the catch block with process.exit(1)
finishShutdown(S) ==
    IF S.cleanupResult = "pending" THEN [S EXCEPT !.shutdownPc = "cleanup"]
    ELSE IF S.cleanupResult = "rejected" THEN [S EXCEPT !.shutdownPc = "exited", !.exitCode = 1]
    ELSE [S EXCEPT !.shutdownPc = "exited", !.forceExitTimer = -1, !.exitCode = 0]

\* gracefulShutdown from `if (agentManager)` on
afterServers(S) ==
    IF agentManager THEN finishShutdown(cleanupLoop(1, S))
    ELSE [S EXCEPT !.shutdownPc = "exited", !.forceExitTimer = -1, !.exitCode = 0]

\* `await closeServer(http_server, 'HTTP')` and what follows it without a pause
closeHttp(S, now) ==
    IF S.http_server # "none"
    THEN [S EXCEPT !.http_server = "closing", !.closeCalls["http"] = @ + 1,
                   !.closeTimer = now + CloseTimeoutMs, !.shutdownPc = "closeHttp"]
    ELSE afterServers([S EXCEPT !.closeTimer = -1])

\* `await closeServer(https_server, 'HTTPS')` and what follows it without a pause
closeHttps(S, now) ==
    IF S.https_server # "none"
    THEN [S EXCEPT !.https_server = "closing", !.closeCalls["https"] = @ + 1,
                   !.closeTimer = now + CloseTimeoutMs, !.shutdownPc = "closeHttps"]
    ELSE closeHttp([S EXCEPT !.closeTimer = -1], now)

\* the mutant of shutdownGuard: no re-entrancy guard
shutdownGuard_Off == FALSE

\* `if (isShuttingDown) return;`
shutdownGuard == isShuttingDown

\* the mutant of forceExitDue: the force-exit timer is never set
forceExitDue_Never(now) == -1

\* setTimeout(() => process.exit(1), 5000)
forceExitDue(now) == now + ForceExitMs

Signals == {"SIGTERM", "SIGINT", "SIGHUP"}

\* process.on(signal, () => gracefulShutdown(signal)): the guard, the flag and the
\* force-exit timer
gracefulShutdown(signal) ==
    /\ AtYield
    /\ ~exited
    /\ sigCount < MaxSignals
    /\ sigCount' = sigCount + 1
    /\ IF shutdownGuard
       THEN UNCHANGED <<isShuttingDown, shutdownPc, forceExitTimer, shutdownFrom,
                        shutdownRuns>>
       ELSE /\ isShuttingDown' = TRUE
            /\ shutdownFrom' = IF shutdownFrom = "none" THEN lifecycle ELSE shutdownFrom
            /\ shutdownRuns' = shutdownRuns + 1
            /\ forceExitTimer' = IF forceExitTimer # -1 THEN forceExitTimer
                                 ELSE forceExitDue(elapsed)
            /\ shutdownPc' = "entered"
    /\ UNCHANGED <<envVars, mainVars, reqVars, wsVars, hostVars, srvVars, closeTimer, elapsed, cleanupCursor,
                   cleanupCalls, cleanupResult, cleanupOpen, cleanupFailed, closeCalls,
                   exitCode>>

\* gracefulShutdown from `await closeServer(https_server, 'HTTPS')` to its first pause
ShutdownBegin ==
    /\ shutdownPc = "entered"
    /\ ~exited
    /\ Becomes(closeHttps(Current, elapsed))
    /\ UNCHANGED <<envVars, mainVars, reqVars, wsVars, hostVars, isShuttingDown, elapsed, shutdownFrom,
                   shutdownRuns, sigCount>>

ServerOf(s) == IF s = "https" THEN https_server ELSE http_server

\* the callback of server.close: the server has closed
ServerClosed(s) ==
    /\ AtYield
    /\ ~exited
    /\ ServerOf(s) = "closing"
    /\ LET S == IF s = "https" THEN [Current EXCEPT !.https_server = "closed"]
                ELSE [Current EXCEPT !.http_server = "closed"]
       IN  IF s = "https" /\ shutdownPc = "closeHttps"
           THEN Becomes(closeHttp([S EXCEPT !.closeTimer = -1], elapsed))
           ELSE IF s = "http" /\ shutdownPc = "closeHttp"
           THEN Becomes(afterServers([S EXCEPT !.closeTimer = -1]))
           ELSE Becomes(S)
    /\ UNCHANGED <<envVars, mainVars, reqVars, wsVars, hostVars, isShuttingDown, elapsed, shutdownFrom,
                   shutdownRuns, sigCount>>

\* the 3000 ms timer of closeServer wins the race against the close callback
CloseTimeout ==
    /\ AtYield
    /\ ~exited
    /\ closeTimer # -1
    /\ elapsed >= closeTimer
    /\ shutdownPc \in {"closeHttps", "closeHttp"}
    /\ IF shutdownPc = "closeHttps"
       THEN Becomes(closeHttp([Current EXCEPT !.closeTimer = -1], elapsed))
       ELSE Becomes(afterServers([Current EXCEPT !.closeTimer = -1]))
    /\ UNCHANGED <<envVars, mainVars, reqVars, wsVars, hostVars, isShuttingDown, elapsed, shutdownFrom,
                   shutdownRuns, sigCount>>

\* an awaited instance.cleanup() settles; the loop goes on to its next await or its end
CleanupSettle(outcome) ==
    /\ AtYield
    /\ ~exited
    /\ shutdownPc = "cleanup"
    /\ cleanupCursor > 0
    /\ LET k == cleanupCursor
           S == [Current EXCEPT !.cleanupOpen = @ \ {agents[k].instance.id}]
       IN  IF outcome = "resolve"
           THEN Becomes(finishShutdown(cleanupLoop(k + 1, S)))
           ELSE Becomes(finishShutdown(cleanupCatch(k,
                    [S EXCEPT !.cleanupFailed = @ \cup {agents[k].instance.id}])))
    /\ UNCHANGED <<envVars, mainVars, reqVars, wsVars, hostVars, isShuttingDown, elapsed, shutdownFrom,
                   shutdownRuns, sigCount>>

\* the force-exit timer fires
ForceExit ==
    /\ AtYield
    /\ ~exited
    /\ forceExitTimer # -1
    /\ elapsed >= forceExitTimer
    /\ exitCode' = 1
    /\ UNCHANGED <<envVars, mainVars, reqVars, wsVars, hostVars, srvVars, isShuttingDown, shutdownPc,
                   forceExitTimer, closeTimer, elapsed, cleanupCursor, cleanupCalls,
                   cleanupResult, cleanupOpen, cleanupFailed, shutdownFrom, shutdownRuns,
                   closeCalls, sigCount>>

PendingTimers == {forceExitTimer, closeTimer} \ {-1}
NextDue == CHOOSE t \in PendingTimers : \A u \in PendingTimers : t <= u
Min(a, b) == IF a <= b THEN a ELSE b

\* time passes, up to the moment the next pending timer is due
Tick ==
    /\ AtYield
    /\ ~exited
    /\ isShuttingDown
    /\ PendingTimers # {}
    /\ elapsed < NextDue
    /\ elapsed' = Min(elapsed + TimeStep, NextDue)
    /\ UNCHANGED <<envVars, mainVars, reqVars, wsVars, hostVars, srvVars, isShuttingDown, shutdownPc,
                   forceExitTimer, closeTimer, cleanupCursor, cleanupCalls, cleanupResult,
                   cleanupOpen, cleanupFailed, shutdownFrom, shutdownRuns, closeCalls,
                   sigCount, exitCode>>

\* --------------------------------------------------- domain configuration
\* the Host header of a request: a name, a name with a port, or none
Localhost == <<"localhost">>
Hosts == {<<"a.com">>, <<"a.com", ":", "4080">>, <<"b.com">>, Undefined}
Domains == {<<"a.com">>, <<"b.com">>, Localhost}

\* String.prototype.split(':')[0]
splitFirst(host) ==
    LET colons == {k \in 1..Len(host) : host[k] = ":"}
    IN  IF colons = {} THEN host
        ELSE SubSeq(host, 1, (CHOOSE k \in colons : \A j \in colons : k <= j) - 1)

\* req.hostname of express: the Host header without its port, undefined without a header
hostname(host) == IF host = Undefined THEN Undefined ELSE splitFirst(host)

\* the wallet addresses of the clients; toLowerCase folds the hex digits A-F
Addresses == {<<"0x", "A">>, <<"0x", "a">>, <<"0x", "b">>}
toLowerCase(str) ==
    [k \in DOMAIN str |-> IF str[k] = "A" THEN "a" ELSE IF str[k] = "B" THEN "b" ELSE str[k]]

\* crypto.randomBytes(32).toString('hex')
Tokens == {<<"t1">>, <<"t2">>}

\* req.body.provider: a configuration with name, chainId and rpc, or one that lacks them
Providers == {"polygon", "sepolia"}

\* the keys that a request can name in enabled_agents: manifest names and other strings
AgentKeys == {<<"@", "a">>, <<"a">>, <<"d">>}

\* config.data of a domain that has no configuration yet
EmptyConfig ==
    [verified |-> FALSE, pending |-> FALSE, challenge_token |-> Undefined,
     challenge_address |-> Undefined, provider |-> "none", admin_address |-> Undefined,
     access_policy |-> "none", default_agent |-> Undefined,
     enabled_agents |-> [k \in AgentKeys |-> "absent"],
     wallet |-> "none", agent_contract_address |-> Undefined,
     agent_contract_pending |-> Undefined]

\* no request has been handled yet
FreshHost ==
    /\ inflight = << >>
    /\ request = [handler |-> "none"]
    /\ response = [status |-> 0]
    /\ AGENT_CONTRACT_ADDRESS = Undefined
    /\ transactions = << >>

\* requests are taken while a server listens and no JavaScript is running
Serving ==
    /\ AtYield
    /\ ~exited
    /\ "listening" \in {https_server, http_server}

\* ------------------------------------------------------- claiming a domain
answer(status, body) == [status |-> status, body |-> body]

\* the mutant of alreadyClaimed: a verified domain can be claimed again
alreadyClaimed_Never(data) == FALSE

\* config.data && config.data.verified
alreadyClaimed(data) == data.verified

\* the mutant of hasChallenge: every challenge request makes a new challenge
hasChallenge_Never(data) == FALSE

\* config.data && config.data.pending && config.data.challenge_token
hasChallenge(data) == data.pending /\ data.challenge_token # Undefined

\* the mutant of sameAddress: the address of the verification request is not compared
sameAddress_Any(a, b) == TRUE

\* clientAddress.toLowerCase() === config.data.challenge_address.toLowerCase()
sameAddress(a, b) == toLowerCase(a) = toLowerCase(b)

\* POST /account/claim from the checks of the request on; token is what randomBytes
\* would give; the result is the data to save and the answer
generateChallenge(data, originOk, clientAddress, provider, token) ==
    IF ~originOk
    THEN [data |-> data, response |-> answer(403, "Request origin does not match domain")]
    ELSE IF clientAddress = Undefined
    THEN [data |-> data, response |-> answer(400, "Client address required in request body")]
    ELSE IF provider \notin Providers
    THEN [data |-> data, response |-> answer(400, "Invalid provider configuration")]
    ELSE IF alreadyClaimed(data)
    THEN [data |-> data, response |-> answer(400, "Domain already claimed")]
    ELSE IF hasChallenge(data)
    THEN [data |-> data, response |-> answer(200, data.challenge_token)]
    ELSE [data |-> [data EXCEPT !.pending = TRUE,
                                !.challenge_token = token,
                                !.challenge_address = toLowerCase(clientAddress),
                                !.provider = provider],
          response |-> answer(200, token)]

\* POST /account/claim
PostAccountClaim(host, originOk, clientAddress, provider) ==
    /\ Serving
    /\ request' = [handler |-> "POST /account/claim", host |-> host, origin |-> originOk,
                   address |-> clientAddress, arg |-> provider]
    /\ IF hostname(host) = Undefined
       THEN /\ response' = answer(400, "Domain not found")
            /\ UNCHANGED config
       ELSE \E token \in Tokens :
                LET r == generateChallenge(config[hostname(host)], originOk, clientAddress,
                                           provider, token)
                IN  /\ config' = [config EXCEPT ![hostname(host)] = r.data]
                    /\ response' = r.response
    /\ UNCHANGED <<envVars, mainVars, reqVars, wsVars, inflight, chainVars, sdVars, srvVars>>

\* GET /account/claim: the pending challenge of the domain, if there is one
GetAccountClaim(host) ==
    /\ Serving
    /\ request' = [handler |-> "GET /account/claim", host |-> host, origin |-> TRUE,
                   address |-> Undefined, arg |-> "none"]
    /\ response' =
          IF hostname(host) = Undefined THEN answer(400, "Domain not found")
          ELSE IF alreadyClaimed(config[hostname(host)])
          THEN answer(400, "Domain already claimed")
          ELSE IF hasChallenge(config[hostname(host)])
          THEN answer(200, config[hostname(host)].challenge_token)
          ELSE answer(200, "null")
    /\ UNCHANGED <<envVars, mainVars, reqVars, wsVars, config, inflight, chainVars, sdVars, srvVars>>

\* GET /claim up to `await resolveTxt(domain)`: the checks of the pending claim and of
\* the address; the handler keeps the config it has loaded while it waits
ClaimBegin(host, address) ==
    /\ Serving
    /\ Len(inflight) < MaxInflight
    /\ request' = [handler |-> "GET /claim", host |-> host, origin |-> TRUE,
                   address |-> address, arg |-> "none"]
    /\ IF hostname(host) = Undefined
       THEN response' = answer(400, "Domain not found") /\ UNCHANGED inflight
       ELSE IF ~config[hostname(host)].pending
       THEN response' = answer(400, "No pending claim for this domain") /\ UNCHANGED inflight
       ELSE IF address = Undefined
       THEN response' = answer(401, "Client address not found") /\ UNCHANGED inflight
       ELSE IF ~sameAddress(address, config[hostname(host)].challenge_address)
       THEN /\ response' = answer(403, "Only the original requester can complete the claim")
            /\ UNCHANGED inflight
       ELSE /\ response' = answer(0, "awaiting resolveTxt")
            /\ inflight' = Append(inflight, [domain |-> hostname(host), address |-> address,
                                             data |-> config[hostname(host)]])
    /\ UNCHANGED <<envVars, mainVars, reqVars, wsVars, config, chainVars, sdVars, srvVars>>

\* what resolveTxt can resolve to: TXT records, each an array of its chunks
TxtRecords ==
    {<< <<"t1">> >>, << <<"t2">> >>, << <<"t1">>, <<"x">> >>, << <<"x">> >>}
TxtAnswers == {A \in SUBSET TxtRecords : Cardinality(A) <= 1}

\* Array.prototype.flat of the records: the chunks of all of them
flat(records) == UNION {{record[k] : k \in 1..Len(record)} : record \in records}

\* the mutant of txtRecord: the TXT records are not looked at
txtRecord_Any(records, token) == TRUE

\* records.flat().find(record => record === config.data.challenge_token)
txtRecord(records, token) == token \in flat(records)

\* the data GET /claim saves on success
completeClaim(data, clientAddress) ==
    [data EXCEPT !.verified = TRUE, !.admin_address = toLowerCase(clientAddress),
                 !.pending = FALSE, !.challenge_token = Undefined,
                 !.challenge_address = Undefined]

Without(seq, k) == SubSeq(seq, 1, k - 1) \o SubSeq(seq, k + 1, Len(seq))

\* GET /claim from the resolved DNS query on
ClaimSettle(k, records) ==
    /\ AtYield
    /\ ~exited
    /\ k \in 1..Len(inflight)
    /\ inflight' = Without(inflight, k)
    /\ request' = [handler |-> "GET /claim resolved", host |-> inflight[k].domain,
                   origin |-> TRUE, address |-> inflight[k].address, arg |-> records]
    /\ IF txtRecord(records, inflight[k].data.challenge_token)
       THEN /\ config' = [config EXCEPT ![inflight[k].domain] =
                                            completeClaim(inflight[k].data, inflight[k].address)]
            /\ response' = answer(200, "Domain claimed successfully")
       ELSE /\ response' = answer(400, "DNS TXT record not found or incorrect")
            /\ UNCHANGED config
    /\ UNCHANGED <<envVars, mainVars, reqVars, wsVars, chainVars, sdVars, srvVars>>

\* GET /claim when resolveTxt rejects (ENOTFOUND, ENODATA): the catch block answers
ClaimDnsError(k) ==
    /\ AtYield
    /\ ~exited
    /\ k \in 1..Len(inflight)
    /\ inflight' = Without(inflight, k)
    /\ request' = [handler |-> "GET /claim rejected", host |-> inflight[k].domain,
                   origin |-> TRUE, address |-> inflight[k].address, arg |-> "none"]
    /\ response' = answer(500, "queryTxt failed")
    /\ UNCHANGED <<envVars, mainVars, reqVars, wsVars, config, chainVars, sdVars, srvVars>>

\* ---------------------------------------------------------- access policy
\* const domain = req.hostname || 'localhost'
requestDomain(host) ==
    IF hostname(host) = Undefined \/ hostname(host) = << >> THEN Localhost ELSE hostname(host)

\* req.body.policy: a string, or undefined when the body has no policy
Policies == {"public", "public-id", "public-req", "private", "admin", "undefined"}

\* the mutant of validPolicies with one more policy in the list
validPolicies_WithAdmin == {"public", "public-id", "public-req", "private", "admin"}

\* const validPolicies = ['public', 'public-id', 'public-req', 'private']
validPolicies == {"public", "public-id", "public-req", "private"}

\* cfg.data?.access_policy || 'public'
getPolicy(data) == IF data.access_policy = "none" THEN "public" ELSE data.access_policy

\* POST /api/policy/set from the check of the policy on: the data to save and the answer
setPolicy(data, policy) ==
    IF policy \notin validPolicies
    THEN [data |-> data, response |-> answer(400, "Invalid policy")]
    ELSE [data |-> [data EXCEPT !.access_policy = policy], response |-> answer(200, policy)]

\* GET /api/policy
GetPolicy(host) ==
    /\ Serving
    /\ request' = [handler |-> "GET /api/policy", host |-> host, origin |-> TRUE,
                   address |-> Undefined, arg |-> "none"]
    /\ response' = answer(200, getPolicy(config[requestDomain(host)]))
    /\ UNCHANGED <<envVars, mainVars, reqVars, wsVars, config, inflight, chainVars, sdVars, srvVars>>

\* POST /api/policy/set
SetPolicy(host, policy) ==
    /\ Serving
    /\ request' = [handler |-> "POST /api/policy/set", host |-> host, origin |-> TRUE,
                   address |-> Undefined, arg |-> policy]
    /\ LET r == setPolicy(config[requestDomain(host)], policy)
       IN  /\ config' = [config EXCEPT ![requestDomain(host)] = r.data]
           /\ response' = r.response
    /\ UNCHANGED <<envVars, mainVars, reqVars, wsVars, inflight, chainVars, sdVars, srvVars>>

\* --------------------------------------------------------------- contracts
\* the addresses at which a deployed Agent contract can come to lie
ContractAddresses == {<<"0x", "c1">>, <<"0x", "c2">>}
ZeroAddress == <<"0x", "0">>

\* const domain = req.hostname || req.body.domain || 'localhost'
contractDomain(host, bodyDomain) ==
    IF hostname(host) # Undefined /\ hostname(host) # << >> THEN hostname(host)
    ELSE IF bodyDomain # Undefined THEN bodyDomain
    ELSE Localhost

\* cfg.data?.agent_contract_address || process.env.AGENT_CONTRACT_ADDRESS
contractAddressOf(data, envAddress) ==
    IF data.agent_contract_address # Undefined THEN data.agent_contract_address
    ELSE envAddress

\* buildStatus(domain, cfg): the contract fields and the admin address of the status
buildStatus(data, envAddress) ==
    LET contractAddress == contractAddressOf(data, envAddress)
        pendingContractAddress == data.agent_contract_pending
        isInitialized == contractAddress # Undefined /\ contractAddress # ZeroAddress
    IN  [contractAddress |-> IF contractAddress # Undefined THEN contractAddress
                             ELSE pendingContractAddress,
         contractPending |-> pendingContractAddress # Undefined,
         initialized |-> isInitialized,
         adminAddress |-> data.admin_address]

\* the checks of the server wallet and of the provider: the answer that ends the request,
\* or status 0 when both are configured
walletCheck(data) ==
    IF data.wallet = "none" THEN answer(500, "Server wallet not configured")
    ELSE IF data.provider \notin Providers THEN answer(500, "Provider not configured")
    ELSE answer(0, "configured")

\* the addresses that lie in a configuration, in process.env or in a request under way
UsedAddresses ==
    {config[d].agent_contract_address : d \in Domains}
        \cup {config[d].agent_contract_pending : d \in Domains}
        \cup {transactions[k].data.agent_contract_pending : k \in 1..Len(transactions)}
        \cup {AGENT_CONTRACT_ADDRESS}

\* deployAgentContract up to its first await: the configuration is loaded and checked,
\* the handler keeps it while it waits for the chain
DeployBegin(host, bodyDomain) ==
    /\ Serving
    /\ Len(transactions) < MaxInflight
    /\ request' = [handler |-> "POST /api/deploy-agent", host |-> host, origin |-> TRUE,
                   address |-> Undefined, arg |-> bodyDomain]
    /\ LET domain == contractDomain(host, bodyDomain)
       IN  IF walletCheck(config[domain]).status # 0
           THEN response' = walletCheck(config[domain]) /\ UNCHANGED transactions
           ELSE /\ response' = answer(0, "awaiting deployment")
                /\ transactions' = Append(transactions,
                       [handler |-> "deploy", domain |-> domain, data |-> config[domain],
                        contractAddress |-> Undefined])
    /\ UNCHANGED <<envVars, mainVars, reqVars, wsVars, config, inflight,
                   AGENT_CONTRACT_ADDRESS, sdVars, srvVars>>

\* deployAgentContract after contract.deployed() and VERSION(): process.env and the
\* configuration the handler loaded are written
DeploySettle(k, contractAddress) ==
    /\ AtYield
    /\ ~exited
    /\ k \in 1..Len(transactions)
    /\ transactions[k].handler = "deploy"
    /\ contractAddress \notin UsedAddresses
    /\ transactions' = Without(transactions, k)
    /\ request' = [handler |-> "POST /api/deploy-agent deployed",
                   host |-> transactions[k].domain, origin |-> TRUE, address |-> Undefined,
                   arg |-> contractAddress]
    /\ AGENT_CONTRACT_ADDRESS' = contractAddress
    /\ config' = [config EXCEPT ![transactions[k].domain] =
                     [transactions[k].data EXCEPT !.agent_contract_pending = contractAddress]]
    /\ response' = answer(200, contractAddress)
    /\ UNCHANGED <<envVars, mainVars, reqVars, wsVars, inflight, sdVars, srvVars>>

\* an await of a contract request rejects (no funds, no network): the catch block answers
TransactionFails(k) ==
    /\ AtYield
    /\ ~exited
    /\ k \in 1..Len(transactions)
    /\ transactions' = Without(transactions, k)
    /\ request' = [handler |-> "contract request rejected", host |-> transactions[k].domain,
                   origin |-> TRUE, address |-> Undefined, arg |-> "none"]
    /\ response' = answer(500, "transaction failed")
    /\ UNCHANGED <<envVars, mainVars, reqVars, wsVars, config, inflight,
                   AGENT_CONTRACT_ADDRESS, sdVars, srvVars>>

\* POST /api/initialize-whitelist up to its first await
InitializeBegin(host, bodyDomain, contractAddress) ==
    /\ Serving
    /\ Len(transactions) < MaxInflight
    /\ request' = [handler |-> "POST /api/initialize-whitelist", host |-> host,
                   origin |-> TRUE, address |-> Undefined,
                   arg |-> <<bodyDomain, contractAddress>>]
    /\ LET domain == contractDomain(host, bodyDomain)
       IN  IF config[domain].admin_address = Undefined
           THEN /\ response' = answer(400, "Admin address not configured in config.ini")
                /\ UNCHANGED transactions
           ELSE IF walletCheck(config[domain]).status # 0
           THEN response' = walletCheck(config[domain]) /\ UNCHANGED transactions
           ELSE /\ response' = answer(0, "awaiting addToWhitelist")
                /\ transactions' = Append(transactions,
                       [handler |-> "initialize", domain |-> domain, data |-> config[domain],
                        contractAddress |-> contractAddress])
    /\ UNCHANGED <<envVars, mainVars, reqVars, wsVars, config, inflight,
                   AGENT_CONTRACT_ADDRESS, sdVars, srvVars>>

\* Promote pending contract to finalized
promote(data) ==
    IF data.agent_contract_pending = Undefined THEN data
    ELSE [data EXCEPT !.agent_contract_address = data.agent_contract_pending,
                      !.agent_contract_pending = Undefined]

\* POST /api/initialize-whitelist after tx.wait(): the pending address of the
\* configuration the handler loaded is promoted and the configuration is saved
InitializeSettle(k) ==
    /\ AtYield
    /\ ~exited
    /\ k \in 1..Len(transactions)
    /\ transactions[k].handler = "initialize"
    /\ transactions[k].contractAddress # Undefined
    /\ transactions' = Without(transactions, k)
    /\ request' = [handler |-> "POST /api/initialize-whitelist done",
                   host |-> transactions[k].domain, origin |-> TRUE, address |-> Undefined,
                   arg |-> transactions[k].contractAddress]
    /\ config' = IF transactions[k].data.agent_contract_pending = Undefined THEN config
                 ELSE [config EXCEPT ![transactions[k].domain] = promote(transactions[k].data)]
    /\ response' = answer(200, "Admin address added to whitelist")
    /\ UNCHANGED <<envVars, mainVars, reqVars, wsVars, inflight, AGENT_CONTRACT_ADDRESS,
                   sdVars, srvVars>>

\* POST /api/check-admin and GET /api/whitelist up to the call of the contract: the
\* contract that the request addresses
contractRequest(data, envAddress, notDeployed) ==
    IF contractAddressOf(data, envAddress) = Undefined THEN notDeployed
    ELSE IF data.wallet = "none" \/ data.provider \notin Providers
    THEN answer(500, "Server not configured")
    ELSE answer(200, [contract |-> contractAddressOf(data, envAddress)])

\* POST /api/check-admin
CheckAdmin(host) ==
    /\ Serving
    /\ request' = [handler |-> "POST /api/check-admin", host |-> host, origin |-> TRUE,
                   address |-> Undefined, arg |-> "none"]
    /\ response' = contractRequest(config[requestDomain(host)], AGENT_CONTRACT_ADDRESS,
                                   answer(200, "Contract not deployed"))
    /\ UNCHANGED <<envVars, mainVars, reqVars, wsVars, config, inflight, chainVars, sdVars,
                   srvVars>>

\* GET /api/whitelist
GetWhitelist(host) ==
    /\ Serving
    /\ request' = [handler |-> "GET /api/whitelist", host |-> host, origin |-> TRUE,
                   address |-> Undefined, arg |-> "none"]
    /\ response' = contractRequest(config[requestDomain(host)], AGENT_CONTRACT_ADDRESS,
                                   answer(400, "Contract not deployed"))
    /\ UNCHANGED <<envVars, mainVars, reqVars, wsVars, config, inflight, chainVars, sdVars,
                   srvVars>>

\* ------------------------------------------------------------- agents API
\* the mutant of headerDomain: every request reads and writes one configuration
headerDomain_Shared(host) == Localhost

\* const domain = req.headers.host?.split(':')[0] || 'localhost'
headerDomain(host) ==
    IF host = Undefined \/ splitFirst(host) = << >> THEN Localhost ELSE splitFirst(host)

\* req.body.enabled: true, false, the string 'false', or undefined when it is missing
EnabledValues == {"true", "false", "'false'", "undefined"}

\* req.episteryClient and the result of isListed(address, 'epistery::admin'): no client,
\* a client that is not listed, a listed client, a lookup that throws
Clients == {"none", "user", "admin", "throws"}

\* the mutant of isEnabled: an agent is enabled only when the map holds true for it
isEnabled_OnlyTrue(value) == value = "true"

\* enabledAgents[agentData.manifest.name] !== false
isEnabled(value) == value # "false"

\* what a request handler can reach: the module variable agentManager, its Map of agents,
\* the Config files and process.env
Reachable ==
    [agentManager |-> agentManager, agents |-> agents, config |-> config,
     AGENT_CONTRACT_ADDRESS |-> AGENT_CONTRACT_ADDRESS]

\* the handler has answered and leaves S behind
reply(S, res) == [agents |-> S.agents, config |-> S.config, response |-> res]

\* a domain whose claim was completed in an earlier run of the host
ClaimedConfig == [EmptyConfig EXCEPT !.verified = TRUE, !.admin_address = <<"0x", "a">>]

\* GET /api/agents: one entry per registered agent, in the order of the Map
listAgents(S, host) ==
    IF ~S.agentManager THEN reply(S, answer(200, [agents |-> << >>]))
    ELSE LET data == S.config[headerDomain(host)]
         IN  reply(S, answer(200,
                 [agents |-> [k \in 1..Len(S.agents) |->
                                 [name |-> S.agents[k].manifest.name,
                                  wellKnownPath |-> S.agents[k].wellKnownPath,
                                  shortPath |-> S.agents[k].shortPath,
                                  enabled |-> isEnabled(
                                      data.enabled_agents[S.agents[k].manifest.name])]],
                  defaultAgent |-> data.default_agent]))

\* GET /api/nav-menu: a link per registered agent, and the admin link for a listed client
navMenu(S, host, client) ==
    IF ~S.agentManager THEN reply(S, answer(200, [links |-> << >>, admin |-> FALSE]))
    ELSE reply(S, answer(200, [links |-> [k \in 1..Len(S.agents) |-> S.agents[k].shortPath],
                               admin |-> client = "admin"]))

\* the mutant of rootPage that ignores the home query parameter
rootPage_IgnoreHome(S, host, acceptsJson, home) ==
    LET data == S.config[requestDomain(host)]
        hits == {k \in 1..Len(S.agents) : S.agents[k].manifest.name = data.default_agent}
    IN  IF acceptsJson THEN reply(S, answer(200, buildStatus(data, S.AGENT_CONTRACT_ADDRESS)))
        ELSE IF ~data.verified THEN reply(S, answer(200, "claim.html"))
        ELSE IF data.default_agent # Undefined /\ S.agentManager /\ hits # {}
        THEN reply(S, answer(302, S.agents[CHOOSE k \in hits : \A j \in hits : k <= j].shortPath))
        ELSE reply(S, answer(200, "index.html"))

\* GET /: the status as JSON, the claim page of a domain that is not verified, the
\* redirect to the default agent, or the status page
rootPage(S, host, acceptsJson, home) ==
    LET data == S.config[requestDomain(host)]
        hits == {k \in 1..Len(S.agents) : S.agents[k].manifest.name = data.default_agent}
    IN  IF acceptsJson THEN reply(S, answer(200, buildStatus(data, S.AGENT_CONTRACT_ADDRESS)))
        ELSE IF ~data.verified THEN reply(S, answer(200, "claim.html"))
        ELSE IF data.default_agent # Undefined /\ ~home /\ S.agentManager /\ hits # {}
        THEN reply(S, answer(302, S.agents[CHOOSE k \in hits : \A j \in hits : k <= j].shortPath))
        ELSE reply(S, answer(200, "index.html"))

\* the admin check of set-default-agent and toggle-agent: the answer that ends the
\* request, or status 0 when the client is a listed admin
adminCheck(client) ==
    IF client = "none" THEN answer(401, "Not authenticated")
    ELSE IF client = "throws" THEN answer(500, "isListed failed")
    ELSE IF client # "admin" THEN answer(403, "Not authorized")
    ELSE answer(0, "admin")

\* the mutant of setDefaultAgent without the check that the agent exists
setDefaultAgent_NoExistsCheck(S, host, agentName, client) ==
    IF agentName = Undefined \/ agentName = << >>
    THEN reply(S, answer(400, "agentName is required"))
    ELSE IF adminCheck(client).status # 0 THEN reply(S, adminCheck(client))
    ELSE [agents |-> S.agents,
          config |-> [S.config EXCEPT ![headerDomain(host)].default_agent = agentName],
          response |-> answer(200, "success")]

\* POST /api/set-default-agent
setDefaultAgent(S, host, agentName, client) ==
    IF agentName = Undefined \/ agentName = << >>
    THEN reply(S, answer(400, "agentName is required"))
    ELSE IF adminCheck(client).status # 0 THEN reply(S, adminCheck(client))
    ELSE IF ~S.agentManager THEN reply(S, answer(500, "Agent manager not initialized"))
    ELSE IF ~\E k \in 1..Len(S.agents) : S.agents[k].manifest.name = agentName
    THEN reply(S, answer(404, "Agent not found"))
    ELSE [agents |-> S.agents,
          config |-> [S.config EXCEPT ![headerDomain(host)].default_agent = agentName],
          response |-> answer(200, "success")]

\* the mutant of toggleAgent: disabling the default agent also unsets the default agent
toggleAgent_ClearsDefault(S, host, agentName, enabled, client) ==
    IF agentName = Undefined \/ agentName = << >> \/ enabled = "undefined"
    THEN reply(S, answer(400, "agentName and enabled are required"))
    ELSE IF adminCheck(client).status # 0 THEN reply(S, adminCheck(client))
    ELSE LET data == S.config[headerDomain(host)]
             saved == [data EXCEPT !.enabled_agents[agentName] = enabled,
                                   !.default_agent =
                                       IF enabled = "false" /\ @ = agentName THEN Undefined
                                       ELSE @]
         IN  [agents |-> S.agents,
              config |-> [S.config EXCEPT ![headerDomain(host)] = saved],
              response |-> answer(200, "success")]

\* the mutant of toggleAgent: disabling an agent also deletes it from the Map of agents
toggleAgent_Unregister(S, host, agentName, enabled, client) ==
    IF agentName = Undefined \/ agentName = << >> \/ enabled = "undefined"
    THEN reply(S, answer(400, "agentName and enabled are required"))
    ELSE IF adminCheck(client).status # 0 THEN reply(S, adminCheck(client))
    ELSE [agents |-> IF enabled = "false"
                     THEN SelectSeq(S.agents, LAMBDA e : e.manifest.name # agentName)
                     ELSE S.agents,
          config |-> [S.config EXCEPT
                         ![headerDomain(host)].enabled_agents[agentName] = enabled],
          response |-> answer(200, "success")]

\* POST /api/toggle-agent
toggleAgent(S, host, agentName, enabled, client) ==
    IF agentName = Undefined \/ agentName = << >> \/ enabled = "undefined"
    THEN reply(S, answer(400, "agentName and enabled are required"))
    ELSE IF adminCheck(client).status # 0 THEN reply(S, adminCheck(client))
    ELSE [agents |-> S.agents,
          config |-> [S.config EXCEPT
                         ![headerDomain(host)].enabled_agents[agentName] = enabled],
          response |-> answer(200, "success")]

\* a request is handled: what the handler leaves behind becomes the state
Handled(req, r) ==
    /\ Serving
    /\ request' = req
    /\ agents' = r.agents
    /\ config' = r.config
    /\ response' = r.response
    /\ UNCHANGED <<envVars, loadAllCalls, pc, agentManager, discovered, loadState, outcomes,
                   loadAllResult, stack, attached, reqVars, wsVars, inflight, chainVars, sdVars, srvVars>>

ListAgents(host) ==
    Handled([handler |-> "GET /api/agents", host |-> host, origin |-> TRUE,
             address |-> "none", arg |-> "none"],
            listAgents(Reachable, host))

NavMenu(host, client) ==
    Handled([handler |-> "GET /api/nav-menu", host |-> host, origin |-> TRUE,
             address |-> client, arg |-> "none"],
            navMenu(Reachable, host, client))

RootPage(host, acceptsJson, home) ==
    Handled([handler |-> "GET /", host |-> host, origin |-> TRUE, address |-> "none",
             arg |-> <<acceptsJson, home>>],
            rootPage(Reachable, host, acceptsJson, home))

SetDefaultAgent(host, agentName, client) ==
    Handled([handler |-> "POST /api/set-default-agent", host |-> host, origin |-> TRUE,
             address |-> client, arg |-> <<agentName>>],
            setDefaultAgent(Reachable, host, agentName, client))

ToggleAgent(host, agentName, enabled, client) ==
    Handled([handler |-> "POST /api/toggle-agent", host |-> host, origin |-> TRUE,
             address |-> client, arg |-> <<agentName, enabled>>],
            toggleAgent(Reachable, host, agentName, enabled, client))

\* -------------------------------------------------------- specifications
LifecycleNames == {<<"@", "a">>, Undefined}
LifecycleShapes == {FileEntry} \cup {DirEntry(m) : m \in Manifests(LifecycleNames)}

\* the instances and routers that the calls of loadAll can make
Objects == 1..(MaxAgents * MaxLoadAllCalls)

InitWith(shapes) ==
    /\ rootExists \in BOOLEAN
    /\ listing \in (IF rootExists THEN Listings(shapes) ELSE {<< >>})
    /\ loadAllCalls = 0
    /\ pc = "init"
    /\ agentManager = FALSE
    /\ discovered = << >>
    /\ loadState = << >>
    /\ outcomes = << >>
    /\ loadAllResult = "none"
    /\ stack = << >>
    /\ attached = {}
    /\ agents = << >>
    /\ counter = [i \in Objects |-> 0]
    /\ via = [i \in Objects |-> {}]
    /\ wsResult = "none"
    /\ wsCalls = {}
    /\ wsErrors = {}
    /\ https_server = "none"
    /\ http_server = "none"
    /\ isShuttingDown = FALSE
    /\ shutdownPc = "idle"
    /\ forceExitTimer = -1
    /\ closeTimer = -1
    /\ elapsed = 0
    /\ cleanupCursor = 0
    /\ cleanupCalls = [i \in Objects |-> 0]
    /\ cleanupResult = "none"
    /\ cleanupOpen = {}
    /\ cleanupFailed = {}
    /\ shutdownFrom = "none"
    /\ shutdownRuns = 0
    /\ closeCalls = [s \in Servers |-> 0]
    /\ sigCount = 0
    /\ exitCode = -1

\* index.mjs has no WebSocket step: what initWebSocket would do is never observed
LifecycleOutcomes == {o \in ImportOutcomes : o.initWebSocket = "none"}

Init == InitWith(LifecycleShapes) /\ FreshHost /\ config = [d \in Domains |-> EmptyConfig]

Next ==
    \/ Startup
    \/ Discover
    \/ \E i \in DOMAIN loadState : LoadAgentBegin(i)
    \/ \E i \in DOMAIN loadState, o \in LifecycleOutcomes : ImportSettle(i, o)
    \/ LoadAllDone
    \/ ListenHttps
    \/ ListenHttp
    \/ \E signal \in Signals : gracefulShutdown(signal)
    \/ ShutdownBegin
    \/ \E s \in Servers : ServerClosed(s)
    \/ CloseTimeout
    \/ \E outcome \in {"resolve", "reject"} : CleanupSettle(outcome)
    \/ ForceExit
    \/ Tick

Spec == Init /\ [][Next]_vars

\* the synchronous stretches of main and of gracefulShutdown: once started they run to
\* their next await
SyncSteps ==
    \/ ShutdownBegin
    \/ Discover
    \/ \E i \in DOMAIN loadState : LoadAgentBegin(i)
    \/ LoadAllDone
    \/ ListenHttps
    \/ ListenHttp

\* timers that are due fire and time passes; synchronous code runs on
FairSpec ==
    /\ Init /\ [][Next]_vars
    /\ WF_vars(Tick) /\ WF_vars(ForceExit) /\ WF_vars(CloseTimeout) /\ WF_vars(SyncSteps)

\* loading without signals, over every manifest name of the bounded alphabet
PathNames == StringsUpTo(MaxNameLen) \cup {Undefined}
PathShapes == {DirEntry(m) : m \in Manifests(PathNames)}
PathOutcomes ==
    {o \in LifecycleOutcomes : o.cleanup = "none" /\ o.fail \in {"no", "ctorThrows"}}

PathInit == InitWith(PathShapes) /\ FreshHost /\ config = [d \in Domains |-> EmptyConfig]

PathNext ==
    \/ Startup
    \/ Discover
    \/ \E i \in DOMAIN loadState : LoadAgentBegin(i)
    \/ \E i \in DOMAIN loadState, o \in PathOutcomes : ImportSettle(i, o)
    \/ LoadAllDone
    \/ ListenHttps
    \/ ListenHttp

PathSpec == PathInit /\ [][PathNext]_vars

\* loading and requests without signals; "@a" and "a" derive the same route name
RequestNames == {<<"@", "a">>, <<"a">>, <<"@">>}
RequestShapes == {DirEntry(m) : m \in Manifests(RequestNames)}
RequestOutcomes == {o \in LifecycleOutcomes : o.cleanup = "none" /\ o.fail = "no"}

RequestInit == InitWith(RequestShapes) /\ FreshHost /\ config = [d \in Domains |-> EmptyConfig]

RequestNext ==
    \/ Startup
    \/ Discover
    \/ \E i \in DOMAIN loadState : LoadAgentBegin(i)
    \/ \E i \in DOMAIN loadState, o \in RequestOutcomes : ImportSettle(i, o)
    \/ LoadAllDone
    \/ ListenHttps
    \/ ListenHttp
    \/ \E path \in MountedPaths : Request(path)

RequestSpec == RequestInit /\ [][RequestNext]_vars

\* discovery over every shape of directory entry, and a second call of loadAll; every
\* module loads, so that both calls of loadAll meet the same agents
DiscoverOutcomes ==
    {o \in LifecycleOutcomes : o.fail = "no" /\ o.attach = "ok" /\ o.cleanup = "none"}

DiscoverInit == InitWith(AnyEntry) /\ FreshHost /\ config = [d \in Domains |-> EmptyConfig]

DiscoverNext ==
    \/ Startup
    \/ Discover
    \/ \E i \in DOMAIN loadState : LoadAgentBegin(i)
    \/ \E i \in DOMAIN loadState, o \in DiscoverOutcomes : ImportSettle(i, o)
    \/ LoadAllDone
    \/ LoadAllAgain
    \/ ListenHttps
    \/ ListenHttp

DiscoverSpec == DiscoverInit /\ [][DiscoverNext]_vars

\* the main with the WebSocket step, and the shutdown: agents with and without the
\* optional hooks cleanup and initWebSocket
HookShapes == {DirEntry(m) : m \in Manifests({<<"@", "a">>})}
HookOutcomes ==
    {o \in ImportOutcomes :
        o.fail = "no" /\ o.attach = "ok" /\ o.cleanup \in {"none", "async"}}

HookInit == InitWith(HookShapes) /\ FreshHost /\ config = [d \in Domains |-> EmptyConfig]

HookNext ==
    \/ Startup
    \/ Discover
    \/ \E i \in DOMAIN loadState : LoadAgentBegin(i)
    \/ \E i \in DOMAIN loadState, o \in HookOutcomes : ImportSettle(i, o)
    \/ LoadAllDone
    \/ ListenHttps
    \/ InitWebSockets
    \/ wsResult = "done" /\ ListenHttp
    \/ \E signal \in Signals : gracefulShutdown(signal)
    \/ ShutdownBegin
    \/ \E s \in Servers : ServerClosed(s)
    \/ CloseTimeout
    \/ \E outcome \in {"resolve", "reject"} : CleanupSettle(outcome)
    \/ ForceExit
    \/ Tick

HookSpec == HookInit /\ [][HookNext]_vars

\* discovery and loading over the contents an epistery.json can have: an object with or
\* without a name, text that does not parse, the literal null
ManifestShapes ==
    {DirEntry(m) : m \in Manifests({<<"@", "a">>, Undefined}) \cup {Corrupt, NullManifest}}

ManifestInit ==
    InitWith(ManifestShapes) /\ FreshHost /\ config = [d \in Domains |-> EmptyConfig]

ManifestNext ==
    \/ Startup
    \/ Discover
    \/ \E i \in DOMAIN loadState : LoadAgentBegin(i)
    \/ \E i \in DOMAIN loadState, o \in DiscoverOutcomes : ImportSettle(i, o)
    \/ LoadAllDone
    \/ ListenHttps
    \/ ListenHttp

ManifestSpec == ManifestInit /\ [][ManifestNext]_vars

\* the claim of a domain: no agents, the routes of the authentication router, requests
\* for one domain with and without a port, and requests without a Host header
ClaimHosts == {<<"a.com">>, <<"a.com", ":", "4080">>, Undefined}

ClaimInit == InitWith({}) /\ FreshHost /\ config = [d \in Domains |-> EmptyConfig]

ClaimNext ==
    \/ Startup
    \/ Discover
    \/ LoadAllDone
    \/ ListenHttps
    \/ ListenHttp
    \/ \E host \in ClaimHosts, originOk \in BOOLEAN, clientAddress \in Addresses \cup {Undefined},
          provider \in Providers \cup {"invalid"} :
           PostAccountClaim(host, originOk, clientAddress, provider)
    \/ \E host \in ClaimHosts : GetAccountClaim(host)
    \/ \E host \in ClaimHosts, address \in Addresses \cup {Undefined} :
           ClaimBegin(host, address)
    \/ \E k \in 1..Len(inflight), records \in TxtAnswers : ClaimSettle(k, records)
    \/ \E k \in 1..Len(inflight) : ClaimDnsError(k)

ClaimSpec == ClaimInit /\ [][ClaimNext]_vars

\* the access policy: no agents, requests for two domains and without a Host header
PolicyInit == InitWith({}) /\ FreshHost /\ config = [d \in Domains |-> EmptyConfig]

PolicyNext ==
    \/ Startup
    \/ Discover
    \/ LoadAllDone
    \/ ListenHttps
    \/ ListenHttp
    \/ \E host \in Hosts : GetPolicy(host)
    \/ \E host \in Hosts, policy \in Policies : SetPolicy(host, policy)

PolicySpec == PolicyInit /\ [][PolicyNext]_vars

\* the agents API: agents named "@a" and "a" that load, a domain that is claimed and one
\* that is not, requests that name an agent and requests that name none
ApiShapes == {DirEntry(m) : m \in Manifests({<<"@", "a">>, <<"a">>})}
ApiHosts == {<<"a.com", ":", "4080">>, <<"b.com">>}
ApiKeys == {<<"@", "a">>, Undefined}
ApiEnabled == {"true", "false", "undefined"}
ApiClients == {"none", "user", "admin"}
ApiConfig == [d \in Domains |-> IF d = <<"a.com">> THEN ClaimedConfig ELSE EmptyConfig]

\* the default agent of a.com was set in an earlier run; the agent may have been removed
ApiStaleConfig == [ApiConfig EXCEPT ![<<"a.com">>].default_agent = <<"@", "a">>]

ApiInit == InitWith(ApiShapes) /\ FreshHost /\ config \in {ApiConfig, ApiStaleConfig}

ApiNext ==
    \/ Startup
    \/ Discover
    \/ \E i \in DOMAIN loadState : LoadAgentBegin(i)
    \/ \E i \in DOMAIN loadState, o \in DiscoverOutcomes : ImportSettle(i, o)
    \/ LoadAllDone
    \/ ListenHttps
    \/ ListenHttp
    \/ \E host \in ApiHosts : ListAgents(host)
    \/ \E host \in ApiHosts, client \in ApiClients : NavMenu(host, client)
    \/ \E host \in ApiHosts, acceptsJson \in BOOLEAN, home \in BOOLEAN :
           RootPage(host, acceptsJson, home)
    \/ \E host \in ApiHosts, agentName \in ApiKeys, client \in ApiClients :
           SetDefaultAgent(host, agentName, client)
    \/ \E host \in ApiHosts, agentName \in ApiKeys, enabled \in ApiEnabled, client \in ApiClients :
           ToggleAgent(host, agentName, enabled, client)

ApiSpec == ApiInit /\ [][ApiNext]_vars

\* the registry from startup to exit: agents in different directories whose manifests
\* have the same name and that load, with and without a cleanup hook,
\* the five handlers that read the registry, and the shutdown sequence
RegistryShapes == {DirEntry(m) : m \in Manifests({<<"@", "a">>})}
RegistryOutcomes ==
    {o \in LifecycleOutcomes : o.fail = "no" /\ o.attach = "ok" /\ o.cleanup # "throws"}
RegistryHost == <<"a.com", ":", "4080">>
RegistryAgent == <<"@", "a">>

RegistryInit == InitWith(RegistryShapes) /\ FreshHost /\ config = ApiConfig

RegistryNext ==
    \/ Startup
    \/ Discover
    \/ \E i \in DOMAIN loadState : LoadAgentBegin(i)
    \/ \E i \in DOMAIN loadState, o \in RegistryOutcomes : ImportSettle(i, o)
    \/ LoadAllDone
    \/ ListenHttps
    \/ ListenHttp
    \/ ListAgents(RegistryHost)
    \/ NavMenu(RegistryHost, "admin")
    \/ RootPage(RegistryHost, FALSE, FALSE)
    \/ SetDefaultAgent(RegistryHost, RegistryAgent, "admin")
    \/ ToggleAgent(RegistryHost, RegistryAgent, "false", "admin")
    \/ \E signal \in Signals : gracefulShutdown(signal)
    \/ ShutdownBegin
    \/ \E s \in Servers : ServerClosed(s)
    \/ CloseTimeout
    \/ \E outcome \in {"resolve", "reject"} : CleanupSettle(outcome)
    \/ ForceExit
    \/ Tick

RegistrySpec == RegistryInit /\ [][RegistryNext]_vars

\* contracts: no agents, two claimed domains with a server wallet and a provider
ContractHosts == {<<"a.com", ":", "4080">>, <<"b.com">>}
ContractConfig ==
    [d \in Domains |->
        IF d = Localhost THEN EmptyConfig
        ELSE [ClaimedConfig EXCEPT !.wallet = "configured", !.provider = "polygon"]]

ContractInit == InitWith({}) /\ FreshHost /\ config = ContractConfig

ContractNext ==
    \/ Startup
    \/ Discover
    \/ LoadAllDone
    \/ ListenHttps
    \/ ListenHttp
    \/ \E host \in ContractHosts : DeployBegin(host, Undefined)
    \/ \E k \in 1..Len(transactions), contractAddress \in ContractAddresses :
           DeploySettle(k, contractAddress)
    \/ \E k \in 1..Len(transactions) : TransactionFails(k)
    \/ \E host \in ContractHosts, contractAddress \in ContractAddresses :
           InitializeBegin(host, Undefined, contractAddress)
    \/ \E k \in 1..Len(transactions) : InitializeSettle(k)
    \/ \E host \in ContractHosts : RootPage(host, TRUE, FALSE)
    \/ \E host \in ContractHosts : CheckAdmin(host)
    \/ \E host \in ContractHosts : GetWhitelist(host)

ContractSpec == ContractInit /\ [][ContractNext]_vars

\* disabling an agent: agents named "@a" and "d" that load and have routes, the claimed
\* domain a.com, an admin who sets the default agent and toggles "@a", and requests to the
\* mounted paths
DisableShapes == {DirEntry(m) : m \in Manifests({<<"@", "a">>, <<"d">>})}
DisableHost == <<"a.com", ":", "4080">>

DisableInit == InitWith(DisableShapes) /\ FreshHost /\ config = ApiConfig

DisableNext ==
    \/ Startup
    \/ Discover
    \/ \E i \in DOMAIN loadState : LoadAgentBegin(i)
    \/ \E i \in DOMAIN loadState, o \in RequestOutcomes : ImportSettle(i, o)
    \/ LoadAllDone
    \/ ListenHttps
    \/ ListenHttp
    \/ ListAgents(DisableHost)
    \/ NavMenu(DisableHost, "none")
    \/ RootPage(DisableHost, FALSE, FALSE)
    \/ SetDefaultAgent(DisableHost, <<"@", "a">>, "admin")
    \/ \E enabled \in {"true", "false"} : ToggleAgent(DisableHost, <<"@", "a">>, enabled, "admin")
    \/ \E path \in MountedPaths : Request(path)

DisableSpec == DisableInit /\ [][DisableNext]_vars

\* ---------------------------------------------------------------- claims
Records == DOMAIN loadState
Entries == 1..Len(agents)
RegisteredNames == {agents[k].name : k \in Entries}
HasCleanup(k) == agents[k].instance.cleanup # "none"

\* the records whose load did not fail: the manifest has a name, and import, constructor
\* and attach did not throw
Loadable == {i \in Records : ~missingName(discovered[i].manifest) /\ outcomes[i] = "no"}

\* C1: loadAll never throws, whatever subset of the discovered agents fails while loading
\* (import throws, no constructible default export, constructor throws, attach throws, or
\* the manifest has no name), and once it has completed the registry holds exactly the
\* agents that did not fail: N records of which F failed leave N - F entries.
C1_LoadAllIsolatesFailures ==
    /\ loadAllResult # "rejected"
    /\ pc # "crashed"
    /\ loadAllResult = "resolved" =>
          /\ RegisteredNames = {discovered[i].name : i \in Loadable}
          /\ Len(agents) = Len(discovered) - Cardinality(Records \ Loadable)

C1_Witness ==
    /\ loadAllResult = "resolved"
    /\ Len(discovered) = 2
    /\ outcomes[1] = "ctorThrows"
    /\ outcomes[2] = "no"
    /\ Len(agents) = 1
    /\ agents[1].name = discovered[2].name

\* C2: AgentManager.cleanup() never rejects; no agent's cleanup() is invoked twice; and
\* when cleanup() has resolved, cleanup() was invoked exactly once on every registered
\* agent that exposes it, also when the cleanup() of other agents threw or rejected.
C2_CleanupReachesEveryAgent ==
    /\ cleanupResult # "rejected"
    /\ \A k \in Entries : cleanupCalls[agents[k].instance.id] <= 1
    /\ cleanupResult = "resolved" =>
          \A k \in Entries :
              cleanupCalls[agents[k].instance.id] = (IF HasCleanup(k) THEN 1 ELSE 0)

C2_Witness ==
    /\ cleanupResult = "resolved"
    /\ Len(agents) = 2
    /\ agents[1].instance.id \in cleanupFailed
    /\ agents[1].instance.cleanup = "async"
    /\ HasCleanup(2)
    /\ cleanupCalls[agents[2].instance.id] = 1

\* C3: however many signals are delivered, the body of gracefulShutdown runs at most
\* once: server.close() is called at most once per server and no agent's cleanup() is
\* invoked a second time.
C3_ShutdownRunsOnce ==
    /\ shutdownRuns <= 1
    /\ sigCount >= 1 => shutdownRuns = 1
    /\ \A srv \in Servers : closeCalls[srv] <= 1
    /\ \A i \in 1..MaxAgents : cleanupCalls[i] <= 1

C3_Witness ==
    /\ sigCount >= 2
    /\ shutdownRuns = 1
    /\ closeCalls["https"] = 1
    /\ closeCalls["http"] = 1
    /\ \E k \in Entries : cleanupCalls[agents[k].instance.id] = 1

\* C4: after a termination signal the process terminates, at the latest when the
\* force-exit timer is due 5000 ms after the signal, also when an agent's cleanup()
\* never settles.
C4_ShutdownTerminates ==
    /\ [](elapsed <= ForceExitMs)
    /\ (isShuttingDown ~> exited)

C4_Witness ==
    /\ exitCode = 1
    /\ elapsed = ForceExitMs
    /\ cleanupOpen # {}
    /\ shutdownPc = "cleanup"

\* C5: when the process exits after a graceful shutdown in which no cleanup() was left
\* hanging, cleanup() has been invoked on every registered agent that exposes it,
\* whether the servers closed or their close timed out.
C5_CleanupBeforeExit ==
    (exited /\ cleanupOpen = {}) =>
        \A k \in Entries : HasCleanup(k) => cleanupCalls[agents[k].instance.id] >= 1

\* C6, as stated: the lifecycle moves only from a state to the next one of
\* Idle, Discovering, Loading, Active, ShuttingDown, Stopped.
Successor(a, b) == \E k \in 1..(Len(Lifecycle) - 1) : Lifecycle[k] = a /\ Lifecycle[k + 1] = b

C7_MountsBeforeListen ==
    [][(https_server # "none" \/ http_server # "none"
        \/ https_server' # "none" \/ http_server' # "none") => stack' = stack]_vars

C7_Witness ==
    /\ Len(stack) = 2 * MaxAgents
    /\ https_server = "listening"
    /\ http_server = "listening"

\* C8: loadAll loads one record at a time: at most one load is in progress, a record is
\* taken up only when every earlier record is registered, skipped or failed, and the two
\* layers of an agent are adjacent in the stack, in the order the agents were registered.
C8_SequentialLoading ==
    /\ Cardinality({i \in Records : loadState[i] = "importing"}) <= 1
    /\ \A i, j \in Records :
          (i < j /\ loadState[j] # "pending") => loadState[i] \in Terminal
    /\ Len(stack) = 2 * Len(agents)
    /\ \A k \in Entries :
          /\ stack[2 * k - 1].router = agents[k].instance.id
          /\ stack[2 * k].router = agents[k].instance.id

C8_Witness ==
    /\ Len(discovered) = 2
    /\ loadState[1] = "registered"
    /\ loadState[2] = "importing"

\* C9: for every registry entry the stack holds the canonical path and the short path
\* with one and the same router, the router of the entry's own instance, and a request
\* through either path reaches the same instance.
C9_DualMountSharesRouter ==
    \A k \in Entries :
        LET e == agents[k]
        IN  /\ \E n \in 1..(Len(stack) - 1) :
                  /\ stack[n] = [path |-> e.wellKnownPath, router |-> e.instance.id]
                  /\ stack[n + 1] = [path |-> e.shortPath, router |-> e.instance.id]
            /\ Dispatch(e.wellKnownPath) = Dispatch(e.shortPath)
            /\ via[e.instance.id] \subseteq {p \in MountedPaths : Dispatch(p) = e.instance.id}

C9_Witness ==
    \E k \in Entries :
        /\ via[agents[k].instance.id] = {agents[k].wellKnownPath, agents[k].shortPath}
        /\ counter[agents[k].instance.id] = 2

\* C10: the route name of a registry entry is its manifest name without its first
\* character when that character is '@', and the manifest name otherwise; the paths are
\* the two bases followed by the route name; equal names give equal paths.
Drop(path, n) == SubSeq(path, n + 1, Len(path))

C10_PathDerivation ==
    \A k \in Entries :
        LET e == agents[k]
            n == e.manifest.name
            r == Drop(e.shortPath, Len(ShortBase))
        IN  /\ SubSeq(e.shortPath, 1, Len(ShortBase)) = ShortBase
            /\ SubSeq(e.wellKnownPath, 1, Len(WellKnownBase)) = WellKnownBase
            /\ Drop(e.wellKnownPath, Len(WellKnownBase)) = r
            /\ IF n[1] = "@"
               THEN Len(r) = Len(n) - 1 /\ \A c \in 1..Len(r) : r[c] = n[c + 1]
               ELSE r = n
            /\ \A m \in Entries :
                  agents[m].manifest.name = n =>
                      /\ agents[m].shortPath = e.shortPath
                      /\ agents[m].wellKnownPath = e.wellKnownPath

C10_Witness ==
    \E k, m \in Entries :
        /\ agents[k].manifest.name = <<"@", "@">>
        /\ agents[k].shortPath = ShortBase \o <<"@">>
        /\ agents[m].manifest.name = <<"a", "@">>
        /\ agents[m].wellKnownPath = WellKnownBase \o <<"a", "@">>

\* C11: no two registry entries are mounted at the same canonical path or at the same
\* short path: a second agent whose manifest name gives a route name that is already
\* mounted is not registered.
C11_NoSharedPath ==
    \A k, m \in Entries :
        k # m => /\ agents[k].wellKnownPath # agents[m].wellKnownPath
                 /\ agents[k].shortPath # agents[m].shortPath

\* C12: once loadAll has run to completion, a further run of loadAll over the same root
\* changes neither the mounts of the app nor the live agent instances nor the registry.
Mounts == {stack[k] : k \in 1..Len(stack)}
LiveInstances ==
    {stack[k].router : k \in 1..Len(stack)} \cup {agents[k].instance.id : k \in Entries}

C12_SecondLoadAllChangesNothing ==
    [][(loadAllResult = "resolved" \/ loadAllCalls >= 2) =>
          /\ Mounts' = Mounts
          /\ LiveInstances' = LiveInstances
          /\ agents' = agents]_vars

\* C13: when the agents root does not exist, discover returns no record and throws
\* nothing, loadAll does not reject, nothing is mounted or registered, and main goes on.
C13_MissingRootIsEmpty ==
    ~rootExists =>
        /\ discovered = << >>
        /\ loadAllResult # "rejected"
        /\ pc # "crashed"
        /\ agents = << >>
        /\ stack = << >>

C13_Witness ==
    /\ ~rootExists
    /\ loadAllCalls = 1
    /\ loadAllResult = "resolved"
    /\ lifecycle = "Active"
    /\ http_server = "listening"
    /\ Len(agents) = 0

\* the listing positions of the discovery records, and the positions whose entry is a
\* directory or a symbolic link with both files and a parsable manifest
DiscoveredNames == {discovered[k].name : k \in 1..Len(discovered)}
Positions == 1..Len(listing)
Valid ==
    {i \in Positions :
        /\ listing[i].kind # "file"
        /\ listing[i].hasManifest
        /\ listing[i].hasEntry
        /\ listing[i].manifest.parsable}

\* C14: once discover has run, a candidate without epistery.json or without index.mjs has
\* no discovery record, is never loaded and never registered, every valid candidate of
\* the listing has a record, and loadAll does not reject.
C14_MissingFilesAreSkipped ==
    loadAllCalls >= 1 =>
        /\ \A i \in Positions :
              (~listing[i].hasManifest \/ ~listing[i].hasEntry) =>
                  /\ i \notin DiscoveredNames
                  /\ i \notin RegisteredNames
        /\ Valid \subseteq DiscoveredNames
        /\ loadAllResult # "rejected"
        /\ pc # "crashed"

C14_Witness ==
    /\ Len(listing) = 2
    /\ listing[1].kind = "dir" /\ listing[1].hasManifest /\ ~listing[1].hasEntry
    /\ listing[1].manifest.parsable
    /\ Valid = {2}
    /\ loadAllResult = "resolved"
    /\ DiscoveredNames = {2}
    /\ RegisteredNames = {2}

\* C15: once discover has run, a candidate whose manifest does not parse has no discovery
\* record, discover has not thrown, and every valid candidate before or after it in the
\* listing has its record.
Unparsable ==
    {i \in Positions :
        /\ listing[i].kind # "file"
        /\ listing[i].hasManifest
        /\ listing[i].hasEntry
        /\ ~listing[i].manifest.parsable}

C15_CorruptManifestIsIsolated ==
    (loadAllCalls >= 1 /\ Unparsable # {}) =>
        /\ DiscoveredNames \cap Unparsable = {}
        /\ pc # "crashed"
        /\ \A i \in Valid : \E k \in 1..Len(discovered) :
              discovered[k] = [name |-> i, manifest |-> listing[i].manifest]

C15_Witness ==
    /\ Unparsable = {1}
    /\ Valid = {2}
    /\ loadAllCalls >= 1
    /\ Len(discovered) = 1
    /\ discovered[1].name = 2

\* C16: once discover has run, an entry that is neither a directory nor a symbolic link
\* has no discovery record even when both files seem to exist under it, and a symbolic
\* link with both files and a parsable manifest has one.
C16_OnlyDirectoriesAndLinks ==
    loadAllCalls >= 1 =>
        \A i \in Positions :
            /\ listing[i].kind \notin {"dir", "symlink"} => i \notin DiscoveredNames
            /\ (/\ listing[i].kind = "symlink"
                /\ listing[i].hasManifest
                /\ listing[i].hasEntry
                /\ listing[i].manifest.parsable) => i \in DiscoveredNames

C16_Witness ==
    /\ Len(listing) = 2
    /\ listing[1].kind = "file" /\ listing[1].hasManifest /\ listing[1].hasEntry
    /\ listing[1].manifest.parsable
    /\ listing[2].kind = "symlink"
    /\ loadAllCalls >= 1
    /\ DiscoveredNames = {2}

\* C17: the discovery records are the accepted entries in their listing order (the k-th
\* record is the k-th accepted entry), and a later discover over the same listing returns
\* the same records in the same order.
C17_ListingOrderIsKept ==
    /\ [](loadAllCalls >= 1 =>
            /\ Len(discovered) = Cardinality(Valid)
            /\ \A k \in 1..Len(discovered) :
                  /\ discovered[k].name \in Valid
                  /\ Cardinality({i \in Valid : i <= discovered[k].name}) = k)
    /\ [][loadAllCalls >= 1 => discovered' = discovered]_vars

C17_Witness ==
    /\ loadAllCalls = 2
    /\ Len(discovered) = 2
    /\ discovered[1].name = 1
    /\ discovered[2].name = 2

\* C18: a record whose manifest name is absent or empty is never imported, instantiated,
\* mounted or registered; the step that skips it changes neither the registry nor the
\* app; and loadAll does not reject but goes on with the next record.
NoName(i) == discovered[i].manifest.name = Undefined \/ Len(discovered[i].manifest.name) = 0

C18_NamelessRecordIsSkipped ==
    /\ [](\A i \in Records :
            NoName(i) =>
                /\ loadState[i] \in {"pending", "skipped"}
                /\ outcomes[i] = "none"
                /\ discovered[i].name \notin RegisteredNames
                /\ loadAllResult # "rejected")
    /\ [][\A i \in Records :
            (/\ DOMAIN loadState' = DOMAIN loadState
             /\ loadState[i] = "pending"
             /\ loadState'[i] = "skipped") =>
                /\ NoName(i)
                /\ stack' = stack
                /\ attached' = attached
                /\ agents' = agents]_vars

C18_Witness ==
    /\ Len(discovered) = 2
    /\ discovered[1].manifest.name = << >>
    /\ loadState[1] = "skipped"
    /\ loadState[2] = "registered"
    /\ RegisteredNames = {discovered[2].name}
    /\ Len(stack) = 2

\* C19: an agent whose instance has no attach is registered, its router is mounted at
\* both of its paths, and no request under either path is answered.
C19_NoAttachIsNotFound ==
    \A i \in Records :
        (loadState[i] = "registered" /\ outcomes[i] = "no") =>
            \A k \in Entries :
                (agents[k].name = discovered[i].name /\ agents[k].instance.attach = "none") =>
                    /\ \E n \in 1..Len(stack) :
                          stack[n] = [path |-> agents[k].wellKnownPath,
                                      router |-> agents[k].instance.id]
                    /\ \E n \in 1..Len(stack) :
                          stack[n] = [path |-> agents[k].shortPath,
                                      router |-> agents[k].instance.id]
                    /\ Dispatch(agents[k].wellKnownPath) = 0
                    /\ Dispatch(agents[k].shortPath) = 0

\* C20: an agent without cleanup is skipped by cleanup() without an error while the
\* cleanup of the others is invoked, cleanup() does not reject, and the WebSocket loop
\* invokes initWebSocket on exactly the agents that have it, without an error for the
\* others.
C20_MissingHooksAreSkipped ==
    /\ cleanupResult # "rejected"
    /\ \A k \in Entries :
          agents[k].instance.cleanup = "none" =>
              /\ cleanupCalls[agents[k].instance.id] = 0
              /\ agents[k].instance.id \notin cleanupFailed
    /\ cleanupResult = "resolved" =>
          \A k \in Entries :
              agents[k].instance.cleanup # "none" => cleanupCalls[agents[k].instance.id] = 1
    /\ wsResult = "done" =>
          \A k \in Entries :
              /\ agents[k].instance.initWebSocket = "none" =>
                    agents[k].instance.id \notin (wsCalls \cup wsErrors)
              /\ agents[k].instance.initWebSocket # "none" =>
                    agents[k].instance.id \in wsCalls

C20_Witness ==
    /\ wsResult = "done"
    /\ cleanupResult = "resolved"
    /\ Len(agents) = 2
    /\ agents[1].instance.cleanup = "none"
    /\ agents[1].instance.initWebSocket = "none"
    /\ agents[2].instance.cleanup = "async"
    /\ agents[2].instance.initWebSocket = "ok"
    /\ cleanupCalls[agents[2].instance.id] = 1
    /\ wsCalls = {agents[2].instance.id}

\* C29: the load of a record whose manifest has no non-empty name ends as a failure, an
\* error thrown to the caller, and not as a normal return.
C29_MissingNameIsThrown ==
    \A i \in Records :
        (NoName(i) /\ ~discovered[i].manifest.isNull /\ loadState[i] \in Terminal) =>
            loadState[i] = "failed"

\* C30: a candidate for which discover logged a failure (its manifest did not parse, or
\* handling the parsed manifest threw) has no discovery record.
C30_ReportedFailureHasNoRecord ==
    loadAllCalls >= 1 =>
        \A i \in Positions :
            (/\ listing[i].kind # "file"
             /\ listing[i].hasManifest
             /\ listing[i].hasEntry
             /\ (~listing[i].manifest.parsable \/ listing[i].manifest.isNull)) =>
                /\ reportsFailure(listing[i])
                /\ i \notin DiscoveredNames

\* the domain a request is addressed to: the name in front of the port
Addressed(req, d) == req.host # Undefined /\ req.host[1] = d[1]

\* equality of two addresses up to the case of their hex digits
Upper(c) == IF c = "a" THEN "A" ELSE IF c = "b" THEN "B" ELSE c
IgnoreCaseEq(x, y) ==
    /\ Len(x) = Len(y)
    /\ \A k \in 1..Len(x) : Upper(x[k]) = Upper(y[k])
IsLowerCase(x) == \A k \in 1..Len(x) : x[k] \notin {"A", "B"}

\* a challenge request that carries an acceptable origin, an address and a provider
WellFormed(req) ==
    /\ req.handler = "POST /account/claim"
    /\ req.origin
    /\ req.address # Undefined
    /\ req.arg \in {"polygon", "sepolia"}

\* C24: the challenge address stored with a new challenge is the requester's address in
\* lower case; a domain becomes verified only by the completion of a verification request
\* whose address equals the challenge address up to case, and the admin address stored
\* is that address in lower case; a verification request with another address is
\* answered 403 and changes neither the configuration nor the requests in progress.
C24_OnlyRequesterVerifies ==
    [][\A d \in Domains :
          /\ (~config[d].pending /\ config'[d].pending) =>
                /\ IgnoreCaseEq(config'[d].challenge_address, request'.address)
                /\ IsLowerCase(config'[d].challenge_address)
          /\ (~config[d].verified /\ config'[d].verified) =>
                /\ request'.handler = "GET /claim resolved"
                /\ request'.host = d
                /\ config[d].pending
                /\ IgnoreCaseEq(request'.address, config[d].challenge_address)
                /\ IgnoreCaseEq(config'[d].admin_address, request'.address)
                /\ IsLowerCase(config'[d].admin_address)
          /\ (/\ request' # request
              /\ request'.handler = "GET /claim"
              /\ Addressed(request', d)
              /\ config[d].pending
              /\ request'.address # Undefined
              /\ ~IgnoreCaseEq(request'.address, config[d].challenge_address)) =>
                /\ response'.status = 403
                /\ config' = config
                /\ inflight' = inflight]_vars

C24_Witness ==
    /\ request.handler = "GET /claim resolved"
    /\ request.address = <<"0x", "A">>
    /\ response.status = 200
    /\ config[<<"a.com">>].verified
    /\ config[<<"a.com">>].admin_address = <<"0x", "a">>

\* C25, as stated: a domain becomes verified only when a claim is pending and one of the
\* resolved TXT records equals the stored challenge token.
C25_RecordEqualsToken ==
    [][\A d \in Domains :
          (~config[d].verified /\ config'[d].verified) =>
              /\ config[d].pending
              /\ request'.handler = "GET /claim resolved"
              /\ \E record \in request'.arg : record = <<config[d].challenge_token>>]_vars

\* C25, amended: a domain becomes verified only when a claim is pending and one of the
\* strings (chunks) of the resolved TXT records equals the stored challenge token; a
\* verification request without a pending claim is answered 400, a completion without
\* such a string is answered 400, and both leave the configuration unchanged.
C25_ChunkEqualsToken ==
    [][\A d \in Domains :
          /\ (~config[d].verified /\ config'[d].verified) =>
                /\ config[d].pending
                /\ request'.handler = "GET /claim resolved"
                /\ \E record \in request'.arg : \E k \in 1..Len(record) :
                      record[k] = config[d].challenge_token
          /\ (/\ request' # request
              /\ request'.handler = "GET /claim"
              /\ Addressed(request', d)
              /\ ~config[d].pending) =>
                /\ response' = [status |-> 400, body |-> "No pending claim for this domain"]
                /\ config' = config
                /\ inflight' = inflight
          /\ (/\ Len(inflight') < Len(inflight)
              /\ request'.handler = "GET /claim resolved"
              /\ request'.host = d
              /\ \A record \in request'.arg : \A k \in 1..Len(record) :
                    \A e \in 1..Len(inflight) : record[k] # inflight[e].data.challenge_token) =>
                /\ response'.status = 400
                /\ config' = config]_vars

C25_Witness ==
    /\ request.handler = "GET /claim resolved"
    /\ response.status = 200
    /\ config[request.host].verified
    /\ \E record \in request.arg : Len(record) = 2

\* C26: once a domain is verified, its verified flag and its admin address never change;
\* a well-formed challenge request for it is answered 'Domain already claimed' and a
\* verification request for it is answered that no claim is pending, and neither changes
\* the configuration or starts a DNS query.
C26_VerifiedIsFinal ==
    [][\A d \in Domains :
          config[d].verified =>
              /\ config'[d].verified
              /\ config'[d].admin_address = config[d].admin_address
              /\ (request' # request /\ WellFormed(request') /\ Addressed(request', d)) =>
                    /\ response' = [status |-> 400, body |-> "Domain already claimed"]
                    /\ config' = config
              /\ (/\ request' # request
                  /\ request'.handler = "GET /claim"
                  /\ Addressed(request', d)) =>
                    /\ response' = [status |-> 400, body |-> "No pending claim for this domain"]
                    /\ config' = config
                    /\ inflight' = inflight]_vars

C26_Witness ==
    /\ config[<<"a.com">>].verified
    /\ config[<<"a.com">>].admin_address = <<"0x", "a">>
    /\ WellFormed(request)
    /\ request.address = <<"0x", "b">>
    /\ Addressed(request, <<"a.com">>)
    /\ response.body = "Domain already claimed"

\* C27: the answer to the challenge request that creates a challenge is the token that is
\* stored; while the claim is pending, every further well-formed challenge request for
\* the domain is answered with the stored token and leaves the configuration (token,
\* challenge address, provider) unchanged, whatever address and provider it carries.
C27_ChallengeIsIdempotent ==
    [][\A d \in Domains :
          /\ (~config[d].pending /\ config'[d].pending) =>
                response' = [status |-> 200, body |-> config'[d].challenge_token]
          /\ (/\ config[d].pending
              /\ ~config[d].verified
              /\ request'.handler = "POST /account/claim"
              /\ Addressed(request', d)) =>
                /\ config'[d] = config[d]
                /\ WellFormed(request') =>
                      response' = [status |-> 200, body |-> config[d].challenge_token]]_vars

C27_Witness ==
    /\ config[<<"a.com">>].pending
    /\ config[<<"a.com">>].challenge_address = <<"0x", "a">>
    /\ config[<<"a.com">>].provider = "polygon"
    /\ WellFormed(request)
    /\ request.address = <<"0x", "b">>
    /\ request.arg = "sepolia"
    /\ response = [status |-> 200, body |-> config[<<"a.com">>].challenge_token]

\* the domain a Host header names: the text before the port, localhost without a header
NamedDomain(host) == IF host = Undefined THEN Localhost ELSE <<host[1]>>

\* C28: the access policy stored for a domain is always one of 'public', 'public-id',
\* 'public-req' and 'private', or none is stored; a request to set any other value is
\* answered 400 'Invalid policy' and leaves the configuration unchanged; a domain without
\* a stored policy reports 'public', a domain with one reports it.
C28_PolicyIsOneOfFour ==
    [][/\ \A d \in Domains :
             config'[d].access_policy \in {"public", "public-id", "public-req", "private", "none"}
       /\ (/\ request'.handler = "POST /api/policy/set"
           /\ request'.arg \notin {"public", "public-id", "public-req", "private"}) =>
             /\ response' = [status |-> 400, body |-> "Invalid policy"]
             /\ config' = config
       /\ (/\ request'.handler = "POST /api/policy/set"
           /\ request' # request
           /\ request'.arg \in {"public", "public-id", "public-req", "private"}) =>
             /\ response'.status = 200
             /\ config'[NamedDomain(request'.host)].access_policy = request'.arg
       /\ request'.handler = "GET /api/policy" =>
             LET stored == config[NamedDomain(request'.host)].access_policy
             IN  response'.body = IF stored = "none" THEN "public" ELSE stored]_vars

C28_Witness ==
    /\ request.handler = "POST /api/policy/set"
    /\ request.host = <<"a.com", ":", "4080">>
    /\ request.arg = "admin"
    /\ response = [status |-> 400, body |-> "Invalid policy"]
    /\ config[<<"a.com">>].access_policy = "private"
    /\ config[<<"b.com">>].access_policy = "none"

\* C21: once loadAll has resolved, no step changes the registry: not the agent listing,
\* the nav menu, the root page with its redirect, set-default-agent or toggle-agent, and
\* not a step of the shutdown with cleanup; its keys, the local directory names, are
\* pairwise distinct.
C21_RegistryIsFrozen ==
    [][/\ loadAllResult = "resolved" => agents' = agents
       /\ \A j, k \in 1..Len(agents') : agents'[j].name = agents'[k].name => j = k]_vars

C21_Witness ==
    /\ Len(agents) = 2
    /\ request.handler = "POST /api/toggle-agent"
    /\ response.status = 200
    /\ config[<<"a.com">>].default_agent = <<"@", "a">>
    /\ cleanupResult = "resolved"
    /\ \E i \in Objects : cleanupCalls[i] > 0
    /\ exitCode = 0

\* C22: the agent listing of a domain has one entry per registered agent, under its
\* manifest name, and the entry reports the agent enabled unless the domain's
\* enabled-agents map holds the value false under that manifest name; an agent without
\* an entry in the map is reported enabled.
C22_EnabledUnlessFalse ==
    request.handler = "GET /api/agents" =>
        /\ Len(response.body.agents) = Len(agents)
        /\ \A k \in 1..Len(agents) :
              LET stored == config[NamedDomain(request.host)].enabled_agents[
                                agents[k].manifest.name]
              IN  /\ response.body.agents[k].name = agents[k].manifest.name
                  /\ stored = "false" => ~response.body.agents[k].enabled
                  /\ stored # "false" => response.body.agents[k].enabled

C22_Witness ==
    /\ request.handler = "GET /api/agents"
    /\ Len(agents) = 2
    /\ \E j, k \in 1..Len(agents) :
          /\ ~response.body.agents[j].enabled
          /\ response.body.agents[k].enabled
          /\ config[NamedDomain(request.host)].enabled_agents[agents[k].manifest.name]
                 = "absent"

\* what the agent listing reports for the domain that host names
Listed(host) == listAgents(Reachable, host).response.body

\* C23: a toggle-agent or set-default-agent request addressed to one domain changes
\* neither the configuration of any other domain nor what the agent listing reports for
\* it (enabled flags and default agent); the listing of every domain names the agents of
\* the one registry of the process.
C23_FlagsAreDomainScoped ==
    [][/\ (/\ request'.handler \in {"POST /api/toggle-agent", "POST /api/set-default-agent"}
           /\ config' # config) =>
             /\ \A d \in Domains : d # NamedDomain(request'.host) => config'[d] = config[d]
             /\ \A host \in ApiHosts :
                   NamedDomain(host) # NamedDomain(request'.host) =>
                       Listed(host)' = Listed(host)
       /\ \A host \in ApiHosts :
             [k \in 1..Len(agents) |-> Listed(host).agents[k].name]
                 = [k \in 1..Len(agents) |-> agents[k].manifest.name]]_vars

C23_Witness ==
    /\ request.handler = "POST /api/toggle-agent"
    /\ request.host = <<"a.com", ":", "4080">>
    /\ request.arg = <<<<"@", "a">>, "false">>
    /\ response.status = 200
    /\ Len(agents) > 0
    /\ config[<<"a.com">>].enabled_agents[<<"@", "a">>] = "false"
    /\ config[<<"b.com">>].enabled_agents[<<"@", "a">>] = "true"
    /\ config[<<"b.com">>].default_agent = <<"@", "a">>

\* the paths at which the router r is mounted
MountedAt(r) == {stack[k].path : k \in {j \in 1..Len(stack) : stack[j].router = r}}

\* C31: in every state, and so at every await of loadAll and loadAgent and after loadAll
\* has ended, the router of a registered agent is mounted at the agent's canonical path
\* and at its short path and nowhere else, and a router that belongs to no registered
\* agent is mounted nowhere; an agent whose import, constructor or attach threw is
\* neither registered nor mounted.
C31_RegisteredIffMounted ==
    /\ \A r \in Objects :
          LET entries == {k \in 1..Len(agents) : agents[k].instance.id = r}
          IN  IF entries = {} THEN MountedAt(r) = {}
              ELSE \A k \in entries :
                       MountedAt(r) = {agents[k].wellKnownPath, agents[k].shortPath}
    /\ \A k \in 1..Len(stack) : stack[k].router \in Objects
    /\ \A i \in DOMAIN loadState :
          loadState[i] = "failed" =>
              /\ MountedAt(newObject(i)) = {}
              /\ \A k \in 1..Len(agents) : agents[k].name # discovered[i].name

C31_Witness ==
    /\ loadAllResult = "resolved"
    /\ Len(agents) = 1
    /\ \E i \in DOMAIN outcomes : outcomes[i] = "attachThrows"
    /\ \E r \in Objects : Cardinality(MountedAt(r)) = 2

\* C32: cleanup() calls the cleanup of the registered agents in the order of the
\* registry and one at a time: when the cleanup of an agent is invoked, the cleanup of
\* every earlier agent that has one has been invoked and has settled, and that of no
\* later agent has been invoked; at most one cleanup is unsettled at any time.
C32_CleanupIsSequential ==
    [][/\ \A k \in 1..Len(agents) :
             cleanupCalls'[agents[k].instance.id] > cleanupCalls[agents[k].instance.id] =>
                 /\ \A j \in 1..(k - 1) :
                       /\ isFunction(agents[j].instance.cleanup) =>
                             cleanupCalls'[agents[j].instance.id] > 0
                       /\ agents[j].instance.id \notin cleanupOpen'
                 /\ \A j \in (k + 1)..Len(agents) :
                       cleanupCalls[agents[j].instance.id] = 0
       /\ Cardinality(cleanupOpen') <= 1]_vars

C32_Witness ==
    /\ Len(agents) = 2
    /\ agents[1].instance.cleanup = "async"
    /\ agents[1].instance.id \in cleanupFailed
    /\ agents[2].instance.cleanup = "async"
    /\ cleanupCalls[agents[2].instance.id] = 1
    /\ cleanupOpen = {}
    /\ cleanupResult = "resolved"

CleanupInvoked == \E r \in Objects : cleanupCalls'[r] > cleanupCalls[r]

\* the close of the server has finished or has timed out, or there was no server to
\* close: the shutdown sequence is at, and is past the positions in waiting
CloseOver(server, at, waiting) ==
    \/ server \in {"none", "closed"}
    \/ server = "closing" /\ at \notin waiting

\* C34: when the cleanup of an agent is invoked, each of the two servers has been closed
\* or its close has timed out; when the close of the HTTP server is started, the HTTPS
\* server has been closed or its close has timed out.
C34_ServersCloseBeforeCleanup ==
    [][/\ CleanupInvoked =>
             /\ CloseOver(https_server', shutdownPc, {"idle", "entered"})
             /\ CloseOver(http_server', shutdownPc, {"idle", "entered", "closeHttps"})
       /\ closeCalls'["http"] > closeCalls["http"] =>
             CloseOver(https_server', shutdownPc, {"idle", "entered"})]_vars

\* C35: while a domain has a deployed contract that is pending, that is from the
\* successful deployment to the successful initialize-whitelist request, the status of the
\* domain reports initialized = false; a status reports initialized = true only for a
\* domain whose pending address has been promoted to the finalized contract address.
C35_PendingIsNotInitialized ==
    (request.handler = "GET /" /\ request.arg = <<TRUE, FALSE>>) =>
        LET data == config[NamedDomain(request.host)]
        IN  /\ (/\ data.agent_contract_pending # Undefined
                /\ data.agent_contract_address = Undefined) => ~response.body.initialized
            /\ response.body.initialized => data.agent_contract_address # Undefined

\* the contract fields of the status reported for the domain that host names
StatusOf(host) == rootPage(Reachable, host, TRUE, FALSE).response.body

\* the contract that an admin or whitelist request of the domain addresses
ContractUsed(host) ==
    contractRequest(config[requestDomain(host)], AGENT_CONTRACT_ADDRESS,
                    answer(400, "Contract not deployed"))

\* C36: a completed contract deployment or whitelist initialization for one domain
\* changes neither the status reported for another domain (contract address, initialized
\* flag) nor the contract that the admin and whitelist requests of the other domain
\* address.
C36_ContractsAreDomainScoped ==
    [][(/\ request' # request
        /\ request'.handler \in {"POST /api/deploy-agent deployed",
                                 "POST /api/initialize-whitelist done"}) =>
          \A host \in ContractHosts :
              NamedDomain(host) # request'.host =>
                  /\ StatusOf(host)' = StatusOf(host)
                  /\ ContractUsed(host)' = ContractUsed(host)]_vars

\* the registry has an agent with the manifest name
InRegistry(name) == \E k \in 1..Len(agents) : agents[k].manifest.name = name

NavOf(host) == navMenu(Reachable, host, "none").response
RootOf(host) == rootPage(Reachable, host, FALSE, FALSE).response

\* C39: a toggle-agent request that disables an agent writes the value false under the
\* agent's name in the enabled-agents map of the request's domain and nothing else: the
\* registry, the mounted layers and the routers with routes are unchanged, every mounted
\* path is answered by the same sub-router as before, the nav menu and the answer of the
\* root page (the redirect to the default agent) are unchanged, and the agent listing of
\* the domain differs only in the enabled flag of the entries with that name.
C39_DisableChangesOnlyTheFlag ==
    [][(/\ request' # request
        /\ request'.handler = "POST /api/toggle-agent"
        /\ request'.arg[2] = "false"
        /\ response'.status = 200) =>
          LET name == request'.arg[1]
              d == NamedDomain(request'.host)
          IN  /\ agents' = agents
              /\ stack' = stack
              /\ attached' = attached
              /\ \A path \in MountedPaths : Dispatch(path)' = Dispatch(path)
              /\ config' = [config EXCEPT ![d].enabled_agents[name] = "false"]
              /\ \A h \in ApiHosts :
                    /\ NavOf(h)' = NavOf(h)
                    /\ RootOf(h)' = RootOf(h)
                    /\ Listed(h)'.defaultAgent = Listed(h).defaultAgent
                    /\ \A k \in 1..Len(agents) :
                          Listed(h)'.agents[k] =
                              [Listed(h).agents[k] EXCEPT
                                  !.enabled = IF /\ NamedDomain(h) = d
                                                 /\ agents[k].manifest.name = name
                                              THEN FALSE ELSE @]]_vars

C39_Witness ==
    /\ request.handler = "GET /"
    /\ response = [status |-> 302, body |-> <<"/", "agent", "/", "a">>]
    /\ config[<<"a.com">>].enabled_agents[<<"@", "a">>] = "false"
    /\ \E k \in 1..Len(agents) :
          /\ agents[k].manifest.name = <<"@", "a">>
          /\ ~Listed(request.host).agents[k].enabled
          /\ NavOf(request.host).body.links[k] = agents[k].shortPath
          /\ Dispatch(agents[k].wellKnownPath) = agents[k].instance.id
          /\ Dispatch(agents[k].shortPath) = agents[k].instance.id
          /\ via[agents[k].instance.id] = {agents[k].wellKnownPath, agents[k].shortPath}

====
